---- MODULE Spec2Model ----
(***************************************************************************)
(* Loopback capture workers: the batch (Whisper) worker                    *)
(* loopback_transcribe.py, the streaming (Deepgram) worker                 *)
(* deepgram_transcribe.py and the Deepgram-safe batch worker               *)
(* loopback_transcribe_deepgram_safe.py, each as a state machine.          *)
(*                                                                         *)
(* Audio is kept run-length encoded: a buffer is a sequence of runs        *)
(* <<kind, n>>, n samples of one kind of content, so that lengths are the  *)
(* real sample counts of the code.                                        *)
(***************************************************************************)
EXTENDS Integers, Sequences, FiniteSets, TLC

VARIABLES
    \* ---- batch worker (loopback_transcribe.py main) ----
    b_pc,           \* position of main()
    b_exit,         \* process exit code, NoExit while running
    b_end,          \* why main() ended
    b_engine,       \* WHISPER_ENGINE as read from the environment
    b_requested,    \* WHISPER_MODEL as read from the environment
    b_model,        \* the model that is loaded and has passed its test
    b_src_sr,       \* src_sr of the resolved device
    audio_buffer,   \* the rolling buffer
    window_size,    \* local window_size (keeps its value between iterations)
    b_call,         \* the audio handed to transcribe_wav_base64
    b_last,         \* branch the last completed iteration took
    b_nread,        \* number of frames read
    b_fed,          \* the first MaxTrace frames read, in order
    b_dispatched,   \* the windows handed to the backend while b_fed is kept
    b_cut,          \* samples the last truncation step removed
    b_out,          \* records printed by the last step
    b_result,       \* what transcribe_wav_base64 returned in the last step
    \* ---- streaming worker (deepgram_transcribe.py) ----
    m_pc,           \* position of the main control context
    s_exit,         \* process exit code, NoExit while running
    s_end,          \* why the main context ended
    is_running,     \* global is_running
    connection,     \* global connection: "none", "open" or "closed"
    connection_ready,           \* threading.Event
    audio_streaming_started,    \* threading.Event
    l_pc,           \* position of the listener thread
    k_pc,           \* position of keepalive_loop
    k_count,        \* keepalive_loop's count
    c_pc,           \* position of audio_capture_and_stream
    c_end,          \* why the capture loop ended
    s_src_sr,       \* device_info['sample_rate']
    s_audio_buffer, \* number of samples in the capture thread's audio_buffer
    s_nread,        \* number of device reads
    s_chunks,       \* offsets, in the 16 kHz stream, of the chunks handed to send_media
    wire,           \* frames sent on the connection, in order
    s_result,       \* the backend message the listener handled last
    s_out,          \* records printed by the last step
    \* ---- the event stream of the streaming worker ----
    stdout_lock,    \* "free" or the context that holds the lock
    e_pc,           \* per context: where it is in an emission
    e_site,         \* per context: the print site it is executing
    e_done,         \* per context: emissions completed
    stdout,         \* what the reader of the stream has not yet parsed as a record
    e_records,      \* complete records the reader has parsed
    \* ---- Deepgram-safe batch worker ----
    f_pc,           \* position of main()
    f_exit,         \* process exit code, NoExit while running
    f_end,          \* why main() ended
    f_broken,       \* the device fails every read from now on
    f_reads,        \* read attempts, counted up to MaxSafeReads
    f_engine,       \* WHISPER_ENGINE as read from the environment
    f_device,       \* the device get_optimal_device chose
    f_out,          \* records printed by the last step
    \* ---- device resolution, in each of the three capture workers ----
    r_worker,       \* the worker whose resolver runs, "none" before it is called
    r_pc,           \* position in the resolver
    r_devs,         \* the devices pa.get_device_info_by_index enumerates
    r_default,      \* what the host API reports as its default output
    r_handle,       \* the PyAudio() object: "none", "open" or "terminated"
    r_index,        \* loopback_index, 0 for None
    r_end,          \* the path on which the resolver was left
    r_out,          \* records printed by the last step
    \* ---- resample_linear, called by itself ----
    rs_pc,          \* "idle", "called" or "returned"
    rs_data,        \* argument data: the samples, in thousandths
    rs_src_sr,      \* argument src_sr
    rs_dst_sr,      \* argument dst_sr
    rs_result,      \* the array returned
    \* ---- Moonshine worker (moonshine_transcribe.py) ----
    mn_pc,          \* position of the module-level code
    mn_exit,        \* process exit code, NoExit while running
    mn_end,         \* why the process ended
    mn_raw,         \* the line read_stdin_line_blocking returned last
    mn_lines,       \* calls of sys.stdin.readline, counted up to MaxLines
    mn_tmp,         \* audio_path: "none", or the temporary file that exists
    mn_out          \* records printed by the last step

batchVars == <<b_pc, b_exit, b_end, b_engine, b_requested, b_model, b_src_sr,
               audio_buffer, window_size, b_call, b_last, b_nread, b_fed,
               b_dispatched, b_cut, b_out, b_result>>

streamVars == <<m_pc, s_exit, s_end, is_running, connection, connection_ready,
                audio_streaming_started, l_pc, k_pc, k_count, c_pc, c_end,
                s_src_sr, s_audio_buffer, s_nread, s_chunks, wire, s_result, s_out>>

emitVars == <<stdout_lock, e_pc, e_site, e_done, stdout, e_records>>

safeVars == <<f_pc, f_exit, f_end, f_broken, f_reads, f_engine, f_device,
              f_out>>

\* the device resolver, taken by itself
resolveVars == <<r_worker, r_pc, r_devs, r_default, r_handle, r_index, r_end,
                 r_out>>

\* resample_linear, taken by itself
resampleVars == <<rs_pc, rs_data, rs_src_sr, rs_dst_sr, rs_result>>

\* the Moonshine worker
moonVars == <<mn_pc, mn_exit, mn_end, mn_raw, mn_lines, mn_tmp, mn_out>>

\* the parts that are modelled on their own
unitVars == <<resolveVars, resampleVars, moonVars>>

vars == <<batchVars, streamVars, emitVars, safeVars, unitVars>>

-----------------------------------------------------------------------------
\* Bounds of the model.
MaxFrames == 10
MaxTrace == 5

\* Program constants.
TARGET_SR == 16000
CHUNK_SECONDS == 1
NoExit == 0 - 1

\* Kinds of audio content a frame can hold: digital silence, a speech-level
\* tone (amplitude 0.5) and a constant offset (0.5 on every sample).
Kinds == {"sil", "sp", "dc"}
DeviceRates == {16000, 44100, 48000}

Min(a, b) == IF a < b THEN a ELSE b
Max(a, b) == IF a > b THEN a ELSE b

-----------------------------------------------------------------------------
\* Run-length encoded sample sequences.

RECURSIVE BufLen(_)
BufLen(runs) ==
    IF runs = <<>> THEN 0 ELSE runs[1][2] + BufLen(Tail(runs))

\* list.extend / np.concatenate
Extend(runs, kind, n) ==
    IF n = 0 THEN runs
    ELSE IF runs # <<>> /\ runs[Len(runs)][1] = kind
         THEN [runs EXCEPT ![Len(runs)] = <<kind, @[2] + n>>]
         ELSE Append(runs, <<kind, n>>)

\* buf[n:]
RECURSIVE DropFirst(_, _)
DropFirst(runs, n) ==
    IF n <= 0 \/ runs = <<>> THEN runs
    ELSE IF runs[1][2] <= n THEN DropFirst(Tail(runs), n - runs[1][2])
    ELSE <<(<<runs[1][1], runs[1][2] - n>>)>> \o Tail(runs)

\* buf[-n:], n > 0
TakeLast(runs, n) == DropFirst(runs, Max(0, BufLen(runs) - n))

KindsOf(runs) == {runs[i][1] : i \in DOMAIN runs}

\* mean square of one sample of a kind, in thousandths
MeanSquareMilli(kind) ==
    CASE kind = "sil" -> 0
      [] kind = "sp" -> 125
      [] kind = "dc" -> 250

RECURSIVE SumSquaresMilli(_)
SumSquaresMilli(runs) ==
    IF runs = <<>> THEN 0
    ELSE runs[1][2] * MeanSquareMilli(runs[1][1]) + SumSquaresMilli(Tail(runs))

\* np.mean(x ** 2) > threshold, the threshold in thousandths
EnergyExceeds(runs, thresholdMilli) ==
    SumSquaresMilli(runs) > thresholdMilli * BufLen(runs)

\* every sample has the same value
IsConstant(runs) == Len(runs) <= 1 /\ KindsOf(runs) \subseteq {"sil", "dc"}

-----------------------------------------------------------------------------
\* resample_linear: the length of the result
ResampleLen(n, src_sr, dst_sr) ==
    IF src_sr = dst_sr THEN n ELSE (n * dst_sr) \div src_sr

\* An audio array: its content, how many times the enhancer ran over it and
\* its peak amplitude in thousandths.
RawPeakMilli(runs) == IF KindsOf(runs) \subseteq {"sil"} THEN 0 ELSE 500

Raw(runs) == [runs |-> runs, passes |-> 0, peak |-> RawPeakMilli(runs)]

\* enhance_audio_for_speech: DC removal leaves a constant array all zero and
\* every later stage keeps zeros; anything else ends normalised to 0.85.
\* Short results are padded with zeros to 0.5 s.
enhance_audio_for_speech(a) ==
    IF a.runs = <<>> THEN a
    ELSE LET min_length == TARGET_SR \div 2
             n == BufLen(a.runs)
             padded == IF n < min_length
                       THEN Extend(a.runs, "sil", min_length - n)
                       ELSE a.runs
         IN [runs |-> padded,
             passes |-> a.passes + 1,
             peak |-> IF IsConstant(a.runs) \/ a.peak = 0 THEN 0 ELSE 850]

-----------------------------------------------------------------------------
\* Records of the event stream.
Debug(m) == [type |-> "debug", message |-> m]
Status(m) == [type |-> "status", message |-> m]
Error(e) == [type |-> "error", error |-> e]

\* the types of record the event stream is specified to carry
EventTypes == {"ready", "status", "debug", "error", "transcription"}

\* the records of one type among those a step printed
OfType(out, type) == {i \in DOMAIN out : out[i].type = type}

HasFields(out, type, fields) ==
    \A i \in OfType(out, type) : fields \subseteq DOMAIN out[i]

-----------------------------------------------------------------------------
(***************************************************************************)
(* The batch worker: loopback_transcribe.py                                *)
(***************************************************************************)

\* A device of the enumeration, by what the resolver reads of it:
\*   "match"  loopback device of the WASAPI host API whose name holds the
\*            default output's name
\*   "loop"   loopback device of the WASAPI host API, another name
\*   "alien"  loopback device of another host API, another name
\*   "twin"   loopback device of another host API whose name holds the
\*            default output's name
\*   "plain"  not a loopback device
DeviceKinds == {"match", "loop", "alien", "twin", "plain"}
MaxDevices == 2
DeviceLists == UNION {[1..n -> DeviceKinds] : n \in 0..MaxDevices}

FirstIndex(devs, wanted) ==
    LET hits == {i \in DOMAIN devs : devs[i] \in wanted}
    IN IF hits = {} THEN 0 ELSE CHOOSE i \in hits : \A j \in hits : i <= j

ExactIndex_Skipped(devs) == 0

\* the first loop: isLoopbackDevice, hostApi of WASAPI, and the default
\* output's name in the device's name
ExactIndex(devs) == FirstIndex(devs, {"match"})

\* the second loop: isLoopbackDevice and hostApi of WASAPI
AnyIndex(devs) == FirstIndex(devs, {"match", "loop"})

\* the two enumeration loops of main(): exact name match first, then any
\* WASAPI loopback device; 0 stands for None
FindLoopbackIndex(devs) ==
    LET exact == ExactIndex(devs)
    IN IF exact # 0 THEN exact ELSE AnyIndex(devs)

buffer_duration == 5
max_buffer_samples == TARGET_SR * buffer_duration
process_samples == TARGET_SR * 1
silence_threshold_milli == 1
min_volume_milli == 10
max_window_samples == TARGET_SR * 3
overlap_size == TARGET_SR \div 2
silence_remove_samples == TARGET_SR \div 2

TruncateToMax_Never(buf) == buf

\* "Keep buffer at maximum size"
TruncateToMax(buf) ==
    IF BufLen(buf) > max_buffer_samples THEN TakeLast(buf, max_buffer_samples)
    ELSE buf

\* window_size = min(int(TARGET_SR * 3.0), len(audio_buffer))
WindowSize(buf) == Min(max_window_samples, BufLen(buf))

TrimAfterWindow_Never(buf, ws) == buf

\* "remove only processed portion with overlap"
TrimAfterWindow(buf, ws) ==
    LET remove_samples == ws - overlap_size
    IN IF BufLen(buf) > remove_samples THEN DropFirst(buf, remove_samples)
       ELSE buf

TrimSilence_Never(buf) == buf

TrimSilence_WholeSecond(buf) ==
    IF BufLen(buf) > TARGET_SR THEN DropFirst(buf, TARGET_SR) ELSE buf

\* "Silence detected - smaller cleanup"
TrimSilence(buf) ==
    IF BufLen(buf) > silence_remove_samples
    THEN DropFirst(buf, silence_remove_samples)
    ELSE buf

NoResult == [kind |-> "none"]

\* the execution contexts of the streaming worker
Contexts == {"main", "listener", "keepalive", "capture"}

\* no context is emitting
EmitIdle ==
    /\ stdout_lock = "free"
    /\ e_pc = [c \in Contexts |-> "idle"]
    /\ e_site = [c \in Contexts |-> "none"]
    /\ e_done = [c \in Contexts |-> 0]
    /\ stdout = <<>>
    /\ e_records = 0

\* before any resolver is called
ResolveIdle ==
    /\ r_worker = "none"
    /\ r_pc = "idle"
    /\ r_devs = <<>>
    /\ r_default = "none"
    /\ r_handle = "none"
    /\ r_index = 0
    /\ r_end = "none"
    /\ r_out = <<>>

\* before resample_linear is called
ResampleIdle ==
    /\ rs_pc = "idle"
    /\ rs_data = <<>>
    /\ rs_src_sr = TARGET_SR
    /\ rs_dst_sr = TARGET_SR
    /\ rs_result = <<>>

\* the Moonshine worker before its first statement
MoonIdle ==
    /\ mn_pc = "import"
    /\ mn_exit = NoExit
    /\ mn_end = "running"
    /\ mn_raw = "none"
    /\ mn_lines = 0
    /\ mn_tmp = "none"
    /\ mn_out = <<>>

\* the Deepgram-safe worker before it is started
SafeIdle ==
    /\ f_pc = "import"
    /\ f_exit = NoExit
    /\ f_end = "running"
    /\ f_broken = FALSE
    /\ f_reads = 0
    /\ f_engine = "unset"
    /\ f_device = "unset"
    /\ f_out = <<>>

\* the streaming worker before it is started
StreamIdle ==
    /\ m_pc = "preinit"
    /\ s_exit = NoExit
    /\ s_end = "running"
    /\ is_running = FALSE
    /\ connection = "none"
    /\ connection_ready = FALSE
    /\ audio_streaming_started = FALSE
    /\ l_pc = "unborn"
    /\ k_pc = "unborn"
    /\ k_count = 0
    /\ c_pc = "unborn"
    /\ c_end = "running"
    /\ s_src_sr = 0
    /\ s_audio_buffer = 0
    /\ s_nread = 0
    /\ s_chunks = <<>>
    /\ wire = <<>>
    /\ s_result = NoResult
    /\ s_out = <<>>

NoCall == [runs |-> <<>>, passes |-> 0, peak |-> 0]

BatchInit ==
    /\ b_pc = "import"
    /\ b_exit = NoExit
    /\ b_end = "running"
    /\ b_engine = "unset"
    /\ b_requested = "unset"
    /\ b_model = "none"
    /\ b_src_sr = 0
    /\ audio_buffer = <<>>
    /\ window_size = 0
    /\ b_call = NoCall
    /\ b_last = "none"
    /\ b_nread = 0
    /\ b_fed = <<>>
    /\ b_dispatched = <<>>
    /\ b_cut = 0
    /\ b_out = <<>>
    /\ b_result = NoResult

\* every worker before it is started
Init == BatchInit /\ StreamIdle /\ EmitIdle /\ SafeIdle /\ ResolveIdle
        /\ ResampleIdle /\ MoonIdle

\* the environment and the loaded model, fixed once main's loop runs
batchEnv == <<b_engine, b_requested, b_model>>

BatchExit(code, why, out) ==
    /\ b_pc' = "exited"
    /\ b_exit' = code
    /\ b_end' = why
    /\ b_out' = out
    /\ UNCHANGED <<b_src_sr, audio_buffer, window_size, b_call, b_last,
                   b_nread, b_fed, b_dispatched, b_cut>>

Ready(m, e) == [type |-> "ready", model |-> m, engine |-> e]

Engines == {"openai", "faster"}
Models == {"medium", "base"}

\* module level: import the Whisper packages, read WHISPER_MODEL and
\* WHISPER_ENGINE, import PyAudioWPatch; a failed import ends the process
BatchStart ==
    /\ b_pc = "import"
    /\ UNCHANGED <<streamVars, emitVars, safeVars, unitVars>>
    /\ b_result' = NoResult
    /\ UNCHANGED b_model
    /\ \/ /\ BatchExit(1, "no_whisper", <<Error("Whisper not installed")>>)
          /\ UNCHANGED <<b_engine, b_requested>>
       \/ \E engine \in Engines, requested \in Models, pyaudio \in BOOLEAN :
            /\ b_engine' = engine
            /\ b_requested' = requested
            /\ IF pyaudio
               THEN /\ b_pc' = "load_model"
                    /\ b_out' = <<Debug("Python received env vars")>>
                    /\ UNCHANGED <<b_exit, b_end, b_src_sr, audio_buffer,
                                   window_size, b_call, b_last, b_nread,
                                   b_fed, b_dispatched, b_cut>>
               ELSE BatchExit(1, "no_pyaudio",
                              <<Debug("Python received env vars"),
                                Error("PyAudioWPatch not installed")>>)

FallbackAllowed_Always(requested) == TRUE

\* if WHISPER_MODEL != "base"
FallbackAllowed(requested) == requested # "base"

\* initialize_whisper_model: load and self-test the requested model; on a
\* failure report it and try the base model once, unless base was requested.
BatchLoadModel ==
    /\ b_pc = "load_model"
    /\ UNCHANGED <<streamVars, emitVars, safeVars, unitVars>>
    /\ b_result' = NoResult
    /\ UNCHANGED <<b_engine, b_requested>>
    /\ \E loads \in BOOLEAN, tests \in BOOLEAN, fallbackLoads \in BOOLEAN,
          fallbackTests \in BOOLEAN :
         LET begun == <<Debug("device"), Status("Loading"),
                        Status("Initializing"), Debug("Loading model")>>
             failed == begun
                       \o (IF loads THEN <<Error("Model test failed")>>
                           ELSE <<>>)
                       \o <<Error("Failed to load Whisper model"),
                            Debug("Full error details")>>
             falling == <<Status("Falling back"), Debug("Loading base")>>
         IN  IF loads /\ tests
             THEN /\ b_pc' = "resolve"
                  /\ b_model' = b_requested
                  /\ b_out' = begun \o <<Debug("Model test successful"),
                                         Ready(b_requested, b_engine)>>
                  /\ UNCHANGED <<b_exit, b_end, b_src_sr, audio_buffer,
                                 window_size, b_call, b_last, b_nread, b_fed,
                                 b_dispatched, b_cut>>
             ELSE IF FallbackAllowed(b_requested) /\ fallbackLoads
                     /\ fallbackTests
             THEN /\ b_pc' = "resolve"
                  /\ b_model' = "base"
                  /\ b_out' = failed \o falling
                              \o <<[type |-> "ready", model |-> "base",
                                    engine |-> b_engine, fallback |-> TRUE]>>
                  /\ UNCHANGED <<b_exit, b_end, b_src_sr, audio_buffer,
                                 window_size, b_call, b_last, b_nread, b_fed,
                                 b_dispatched, b_cut>>
             ELSE /\ UNCHANGED b_model
                  /\ BatchExit(1, "model_fail",
                        IF FallbackAllowed(b_requested)
                        THEN failed \o falling
                             \o <<Error("Fallback to base model also failed"),
                                  Debug("Fallback error details")>>
                        ELSE failed)

\* main(), from PyAudio() to the resolved device's parameters
BatchResolve ==
    /\ b_pc = "resolve"
    /\ UNCHANGED <<streamVars, emitVars, safeVars, unitVars>>
    /\ b_result' = NoResult
    /\ UNCHANGED batchEnv
    /\ \E hasDefault \in BOOLEAN, devs \in DeviceLists, sr \in DeviceRates :
         IF ~hasDefault
         THEN BatchExit(0, "no_default_output", <<Error("no default output")>>)
         ELSE IF FindLoopbackIndex(devs) = 0
         THEN BatchExit(0, "no_loopback", <<Error("no loopback device")>>)
         ELSE /\ b_pc' = "open"
              /\ b_src_sr' = sr
              /\ b_out' = <<>>
              /\ UNCHANGED <<b_exit, b_end, audio_buffer, window_size, b_call,
                             b_last, b_nread, b_fed, b_dispatched, b_cut>>

\* pa.open(...): outside every try, so a failure is an uncaught exception
BatchOpen ==
    /\ b_pc = "open"
    /\ UNCHANGED <<streamVars, emitVars, safeVars, unitVars>>
    /\ b_result' = NoResult
    /\ UNCHANGED batchEnv
    /\ \E opens \in BOOLEAN :
         IF opens
         THEN /\ b_pc' = "read"
              /\ b_out' = <<>>
              /\ UNCHANGED <<b_exit, b_end, b_src_sr, audio_buffer,
                             window_size, b_call, b_last, b_nread, b_fed,
                             b_dispatched, b_cut>>
         ELSE BatchExit(1, "open_fail", <<>>)

VolumeSufficient_Always(peak) == TRUE

\* if max_audio_val > 0.01
VolumeSufficient(peak) == peak > min_volume_milli

\* What the loop remembers of a frame: the trace of the first MaxTrace
\* frames is kept, a longer run drops the trace.
Traced == Len(b_fed) = b_nread

FedAfter(kind) ==
    IF Traced /\ b_nread < MaxTrace THEN Append(b_fed, kind) ELSE <<>>

\* What a stage of enhance_audio_for_speech does in a call: nothing
\* unusual, nr.reduce_noise raises (stage 5, inside its try), or
\* signal.butter / signal.filtfilt raises (stages 3 and 4, outside any try).
EnhancerFaults == {"none", "noise", "filter"}

\* One pass of the capture loop from stream.read up to the backend call:
\* read a 1 s frame, downmix, resample, append, truncate, gate on the energy
\* of the last second, extract and enhance the window, check its volume.
\* An exception of the enhancer's filter stage reaches the handler of the
\* loop: "Loopback capture failed", the finally block, and main() returns.
BatchReadFrame ==
    /\ b_pc = "read"
    /\ UNCHANGED <<streamVars, emitVars, safeVars, unitVars>>
    /\ b_result' = NoResult
    /\ UNCHANGED batchEnv
    /\ b_nread < MaxFrames
    /\ \E kind \in Kinds, fault \in EnhancerFaults :
        LET frames_per_chunk == b_src_sr * CHUNK_SECONDS
            mono16k_len == ResampleLen(frames_per_chunk, b_src_sr, TARGET_SR)
            appended == Extend(audio_buffer, kind, mono16k_len)
            buf == TruncateToMax(appended)
            recent_audio == TakeLast(buf, process_samples)
            ws == WindowSize(buf)
            process_audio == Raw(TakeLast(buf, ws))
            enhanced_audio == enhance_audio_for_speech(process_audio)
            untraced == IF b_fed' = <<>> THEN <<>> ELSE b_dispatched
        IN /\ b_nread' = b_nread + 1
           /\ b_cut' = BufLen(appended) - BufLen(buf)
           /\ b_fed' = FedAfter(kind)
           /\ UNCHANGED b_src_sr
           /\ IF BufLen(buf) < process_samples
              THEN /\ audio_buffer' = buf
                   /\ b_last' = "short"
                   /\ b_pc' = "read"
                   /\ b_out' = <<>>
                   /\ b_dispatched' = untraced
                   /\ UNCHANGED <<b_exit, b_end, window_size, b_call>>
              ELSE IF ~EnergyExceeds(recent_audio, silence_threshold_milli)
              THEN /\ audio_buffer' = TrimSilence(buf)
                   /\ b_last' = "silence"
                   /\ b_pc' = "read"
                   /\ b_out' = <<Debug("Audio energy")>>
                   /\ b_dispatched' = untraced
                   /\ UNCHANGED <<b_exit, b_end, window_size, b_call>>
              ELSE IF BufLen(buf) < ws
              THEN /\ audio_buffer' = buf
                   /\ window_size' = ws
                   /\ b_last' = "no_window"
                   /\ b_pc' = "read"
                   /\ b_out' = <<Debug("Audio energy")>>
                   /\ b_dispatched' = untraced
                   /\ UNCHANGED <<b_exit, b_end, b_call>>
              ELSE IF fault = "filter"
              THEN /\ audio_buffer' = buf
                   /\ window_size' = ws
                   /\ b_last' = "enhancer_raised"
                   /\ b_pc' = "exited"
                   /\ b_exit' = 0
                   /\ b_end' = "loop_fail"
                   /\ b_out' = <<Debug("Audio energy"),
                                 Debug("Speech activity detected"),
                                 Error("Loopback capture failed")>>
                   /\ b_dispatched' = untraced
                   /\ UNCHANGED b_call
              ELSE IF VolumeSufficient(enhanced_audio.peak)
              THEN /\ audio_buffer' = buf
                   /\ window_size' = ws
                   /\ b_call' = enhanced_audio
                   /\ b_pc' = "transcribing"
                   /\ b_out' = <<Debug("Audio energy"),
                                 Debug("Speech activity detected"),
                                 Debug("Max audio value"),
                                 Debug("Audio volume sufficient")>>
                   /\ b_dispatched' = IF b_fed' = <<>> THEN <<>>
                                      ELSE Append(b_dispatched, enhanced_audio)
                   /\ b_last' = IF fault = "noise" THEN "noise_gate"
                                ELSE "enhanced"
                   /\ UNCHANGED <<b_exit, b_end>>
              ELSE /\ audio_buffer' = TrimAfterWindow(buf, ws)
                   /\ window_size' = ws
                   /\ b_last' = "low_volume"
                   /\ b_pc' = "read"
                   /\ b_out' = <<Debug("Audio energy"),
                                 Debug("Speech activity detected"),
                                 Debug("Max audio value"),
                                 Debug("Audio volume too low")>>
                   /\ b_dispatched' = untraced
                   /\ UNCHANGED <<b_exit, b_end, b_call>>

\* What transcribe_wav_base64 hands back: a text of three or more
\* characters, a shorter one, an empty one, the empty text of its exception
\* handler, or that after the faster engine's transcribe call has raised
\* and its own handler has reported it.
TranscribeOutcomes == {"text", "short", "empty", "error", "engine_error"}

Transcription(text) ==
    [type |-> "transcription", id |-> "ms", text |-> text, words |-> <<>>,
     confidence |-> 900]

\* result.get("text", "").strip() for each way the call can end
TextOf(outcome) ==
    CASE outcome = "text" -> "text"
      [] outcome = "short" -> "hi"
      [] OTHER -> ""

\* the dict transcribe_wav_base64 returns; its handler's dict has the key
\* "error"
Returned(outcome) ==
    [kind |-> "returned", text |-> TextOf(outcome),
     error |-> outcome \in {"error", "engine_error"}]

ValidText_NonEmpty(text) == text # ""

\* if text and len(text) > 2
ValidText(text) == text # "" /\ Len(text) > 2

\* transcribe_wav_base64 returns: the rest of the iteration, from the
\* result to the trim of the buffer
BatchTranscribeReturn ==
    /\ b_pc = "transcribing"
    /\ UNCHANGED <<streamVars, emitVars, safeVars, unitVars>>
    /\ UNCHANGED batchEnv
    /\ \E outcome \in TranscribeOutcomes :
         /\ outcome = "engine_error" => b_engine = "faster"
         /\ b_result' = Returned(outcome)
         /\ b_out' = IF ValidText(TextOf(outcome))
                     THEN <<Debug("Transcription result"), Debug("Valid text"),
                            Transcription(TextOf(outcome))>>
                     ELSE IF outcome = "engine_error"
                     THEN <<[type |-> "error",
                             message |-> "Unexpected faster-whisper error"],
                            Debug("Transcription result"),
                            Debug("No valid text")>>
                     ELSE <<Debug("Transcription result"),
                            Debug("No valid text")>>
    /\ audio_buffer' = TrimAfterWindow(audio_buffer, window_size)
    /\ b_last' = "dispatch"
    /\ b_pc' = "read"
    /\ UNCHANGED <<b_exit, b_end, b_src_sr, window_size, b_call, b_nread,
                   b_fed, b_dispatched, b_cut>>

\* stream.read raises: "Loopback capture failed", the finally block, and
\* main() returns
BatchReadFails ==
    /\ b_pc = "read"
    /\ UNCHANGED <<streamVars, emitVars, safeVars, unitVars>>
    /\ b_result' = NoResult
    /\ UNCHANGED batchEnv
    /\ BatchExit(0, "read_fail", <<Error("Loopback capture failed")>>)

\* KeyboardInterrupt in the loop, in a read or in the backend call
BatchInterrupt ==
    /\ b_pc \in {"read", "transcribing"}
    /\ UNCHANGED <<streamVars, emitVars, safeVars, unitVars>>
    /\ b_result' = NoResult
    /\ UNCHANGED batchEnv
    /\ BatchExit(0, "stopped", <<>>)

BatchNext ==
    \/ BatchStart
    \/ BatchLoadModel
    \/ BatchResolve
    \/ BatchOpen
    \/ BatchReadFrame
    \/ BatchTranscribeReturn
    \/ BatchReadFails
    \/ BatchInterrupt

SpecBatch ==
    Init /\ [][BatchNext]_vars

-----------------------------------------------------------------------------
(***************************************************************************)
(* Properties of the batch worker                                          *)
(***************************************************************************)

\* C3: after the truncation step of every iteration the rolling buffer
\* holds at most max_buffer_samples (80000) samples.  The steps after the
\* truncation only shorten the buffer, so the bound is stated of every state.
C3_BufferBounded == BufLen(audio_buffer) <= max_buffer_samples

\* a truncation step that removed samples, leaving a full buffer
C3_Witness ==
    /\ b_cut > 0
    /\ b_pc = "transcribing"
    /\ BufLen(audio_buffer) = max_buffer_samples

\* C4: after every dispatch the number of samples retained in the rolling
\* buffer is >= 0 and strictly less than the length of the window that was
\* just dispatched.
C4_OverlapBounds ==
    (b_pc = "read" /\ b_last = "dispatch") =>
        /\ BufLen(audio_buffer) >= 0
        /\ BufLen(audio_buffer) < window_size
        /\ window_size = BufLen(b_call.runs)

\* a dispatch from a full buffer: a 3 s window, 2.5 s retained
C4_Witness ==
    /\ b_pc = "read"
    /\ b_last = "dispatch"
    /\ window_size = max_window_samples
    /\ BufLen(audio_buffer) = max_buffer_samples - max_window_samples + overlap_size

\* The scenario of C5: 1 s of silence, 3 s of speech-level audio, 1 s of
\* silence, in 1-second frames, all five iterations complete.
C5_Scenario ==
    /\ Traced
    /\ b_fed = <<"sil", "sp", "sp", "sp", "sil">>
    /\ b_pc = "read"

\* C5 as stated: the scenario produces exactly one dispatched window, and
\* the audio handed to the backend holds no sample of the silent seconds.
C5_OneWindowNoSilence ==
    C5_Scenario =>
        /\ Len(b_dispatched) = 1
        /\ \A i \in DOMAIN b_dispatched : "sil" \notin KindsOf(b_dispatched[i].runs)

\* C5 as amended: the scenario produces exactly three dispatched windows,
\* one per second of speech, each 1.5 s long; the first starts with the
\* 0.5 s of silence retained from the first second, the other two hold
\* speech only (0.5 s of overlap, then the new second), and no window holds
\* a sample of the trailing silent second.
C5_ThreeWindows ==
    C5_Scenario =>
        /\ Len(b_dispatched) = 3
        /\ b_dispatched[1].runs =
               <<(<<"sil", silence_remove_samples>>), (<<"sp", TARGET_SR>>)>>
        /\ b_dispatched[2].runs = <<(<<"sp", overlap_size + TARGET_SR>>)>>
        /\ b_dispatched[3].runs = <<(<<"sp", overlap_size + TARGET_SR>>)>>
        /\ audio_buffer = <<(<<"sil", TARGET_SR>>)>>

C5_Witness == C5_Scenario /\ Len(b_dispatched) = 3

\* C6 (batch worker): a run that ends on a fatal initialization or device
\* error ends with a non-zero exit code; exit code 0 only on a graceful stop.
C6_ExitCodes ==
    b_pc = "exited" => (b_exit = 0 <=> b_end = "stopped")

\* C9 (batch worker): while a transcribe call is in progress the capture
\* loop can perform its next device read.
C9_ReadNotBlocked ==
    b_pc = "transcribing" => ENABLED BatchReadFrame

-----------------------------------------------------------------------------
(***************************************************************************)
(* The streaming worker: deepgram_transcribe.py                            *)
(*                                                                         *)
(* Four contexts: the main control context (main and                       *)
(* initialize_deepgram_and_stream), the listener thread                    *)
(* (connection.start_listening and the handlers it calls), the keepalive   *)
(* thread (keepalive_loop) and the capture thread                          *)
(* (audio_capture_and_stream).  The threads are daemon threads: they stop  *)
(* when the process exits.                                                 *)
(***************************************************************************)

MaxKeepalive == 2
MaxReads == 2

frames_per_buffer == 8192
min_send_samples == TARGET_SR \div 10

\* the device rate: the default of a WASAPI loopback device
StreamRates == {48000}

Alive == s_exit = NoExit

\* number of real-audio sends that returned
send_count == Cardinality({i \in DOMAIN wire : wire[i] = "audio"})

\* number of samples appended to the capture thread's audio_buffer so far:
\* every read returns frames_per_buffer frames, resampled to TARGET_SR
Captured == s_nread * ResampleLen(frames_per_buffer, s_src_sr, TARGET_SR)

\* ---- main control context ----

mainOther == <<connection_ready, audio_streaming_started, l_pc, k_pc, k_count,
               c_pc, c_end, s_audio_buffer, s_nread, s_chunks, wire,
               batchVars, emitVars, safeVars, unitVars>>

\* main(): preinitialize_audio_device, which returns None when there is no
\* default output device, no loopback device, or the enumeration raises;
\* then is_running = True
MainPreinit ==
    /\ Alive /\ m_pc = "preinit"
    /\ \E hasDefault \in BOOLEAN, devs \in DeviceLists, sr \in StreamRates,
          raises \in BOOLEAN :
         IF raises \/ ~hasDefault \/ FindLoopbackIndex(devs) = 0
         THEN /\ m_pc' = "finally"
              /\ s_end' = "no_device"
              /\ s_out' = <<Debug("Main function started"),
                            Debug("Pre-initializing audio device..."),
                            Error("device"),
                            Error("Failed to pre-initialize audio device")>>
              /\ UNCHANGED <<is_running, s_src_sr>>
         ELSE /\ m_pc' = "connect"
              /\ is_running' = TRUE
              /\ s_src_sr' = sr
              /\ s_out' = <<Debug("Main function started"),
                            Debug("Pre-initializing audio device..."),
                            Debug("Audio device ready"),
                            Debug("Starting Deepgram connection and streaming...")>>
              /\ UNCHANGED s_end
    /\ UNCHANGED <<s_exit, connection>>
    /\ UNCHANGED mainOther
    /\ s_result' = NoResult

\* initialize_deepgram_and_stream up to the entry of the with block: the
\* key check, the client, the connect; every failure ends in sys.exit(1)
MainConnect ==
    /\ Alive /\ m_pc = "connect"
    /\ \E keyValid \in BOOLEAN, connects \in BOOLEAN :
         IF ~keyValid
         THEN /\ m_pc' = "finally"
              /\ s_end' = "bad_key"
              /\ s_out' = <<Status("Initializing Deepgram"),
                            Error("Invalid Deepgram API key format"),
                            Error("Outer error")>>
              /\ UNCHANGED connection
         ELSE IF ~connects
         THEN /\ m_pc' = "finally"
              /\ s_end' = "connect_fail"
              /\ s_out' = <<Status("Initializing Deepgram"),
                            Debug("Opening Deepgram connection"),
                            Error("Failed to initialize Deepgram"),
                            Error("Full traceback")>>
              /\ UNCHANGED connection
         ELSE /\ m_pc' = "start_listener"
              /\ connection' = "open"
              /\ s_out' = <<Status("Initializing Deepgram"),
                            Debug("Opening Deepgram connection"),
                            Debug("Connection established via WITH statement"),
                            Debug("Connection stored globally")>>
              /\ UNCHANGED s_end
    /\ UNCHANGED <<s_exit, is_running, s_src_sr>>
    /\ UNCHANGED mainOther
    /\ s_result' = NoResult

\* the handlers are registered and the listener thread is started
MainStartListener ==
    /\ Alive /\ m_pc = "start_listener"
    /\ m_pc' = "wait_ready"
    /\ l_pc' = "listening"
    /\ s_out' = <<Debug("Starting listener thread..."),
                  Debug("Listener thread started"),
                  Debug("Waiting for WebSocket connection to open...")>>
    /\ UNCHANGED <<s_exit, s_end, is_running, connection, s_src_sr,
                   connection_ready, audio_streaming_started, k_pc, k_count,
                   c_pc, c_end, s_audio_buffer, s_nread, s_chunks, wire, batchVars, emitVars,
                   safeVars, unitVars>>
    /\ s_result' = NoResult

MainReady_NoWait ==
    /\ Alive /\ m_pc = "wait_ready"
    /\ m_pc' = "start_keepalive"
    /\ s_out' = <<Debug("WebSocket connection confirmed ready"),
                  Status("Deepgram connection initialized successfully")>>
    /\ UNCHANGED <<s_exit, s_end, is_running, connection, s_src_sr>>
    /\ UNCHANGED mainOther
    /\ s_result' = NoResult

\* connection_ready.wait(timeout=5) returns True
MainReady ==
    /\ Alive /\ m_pc = "wait_ready"
    /\ connection_ready
    /\ m_pc' = "start_keepalive"
    /\ s_out' = <<Debug("WebSocket connection confirmed ready"),
                  Status("Deepgram connection initialized successfully")>>
    /\ UNCHANGED <<s_exit, s_end, is_running, connection, s_src_sr>>
    /\ UNCHANGED mainOther
    /\ s_result' = NoResult

MainReadyTimeout_GoesOn ==
    /\ Alive /\ m_pc = "wait_ready"
    /\ ~connection_ready
    /\ m_pc' = "start_keepalive"
    /\ s_end' = "open_timeout"
    /\ s_out' = <<Error("Timeout waiting for WebSocket to open")>>
    /\ UNCHANGED <<s_exit, is_running, connection, s_src_sr>>
    /\ UNCHANGED mainOther
    /\ s_result' = NoResult

\* connection_ready.wait(timeout=5) times out: error_log and return, which
\* leaves the with block (the connection is closed)
MainReadyTimeout ==
    /\ Alive /\ m_pc = "wait_ready"
    /\ ~connection_ready
    /\ m_pc' = "finally"
    /\ s_end' = "open_timeout"
    /\ connection' = "closed"
    /\ s_out' = <<Error("Timeout waiting for WebSocket to open")>>
    /\ UNCHANGED <<s_exit, is_running, s_src_sr>>
    /\ UNCHANGED mainOther
    /\ s_result' = NoResult

MainStartKeepalive ==
    /\ Alive /\ m_pc = "start_keepalive"
    /\ m_pc' = "start_capture"
    /\ k_pc' = "sleep0"
    /\ s_out' = <<>>
    /\ UNCHANGED <<s_exit, s_end, is_running, connection, s_src_sr,
                   connection_ready, audio_streaming_started, l_pc, k_count,
                   c_pc, c_end, s_audio_buffer, s_nread, s_chunks, wire, batchVars, emitVars,
                   safeVars, unitVars>>
    /\ s_result' = NoResult

MainStartCapture ==
    /\ Alive /\ m_pc = "start_capture"
    /\ m_pc' = "wait"
    /\ c_pc' = "open"
    /\ s_out' = <<Debug("Starting audio capture thread..."),
                  Debug("Audio streaming thread started"),
                  Debug("Connection open - waiting for user to stop...")>>
    /\ UNCHANGED <<s_exit, s_end, is_running, connection, s_src_sr,
                   connection_ready, audio_streaming_started, l_pc, k_pc,
                   k_count, c_end, s_audio_buffer, s_nread, s_chunks, wire, batchVars, emitVars,
                   safeVars, unitVars>>
    /\ s_result' = NoResult

\* while is_running: the test
MainWaitCheck ==
    /\ Alive /\ m_pc = "wait"
    /\ IF is_running
       THEN /\ m_pc' = "sleep"
            /\ s_out' = <<>>
            /\ UNCHANGED <<connection, s_end>>
       ELSE /\ m_pc' = "finally"
            /\ s_end' = "stopped"
            /\ connection' = "closed"
            /\ s_out' = <<Debug("User stopped - closing connection...")>>
    /\ UNCHANGED <<s_exit, is_running, s_src_sr>>
    /\ UNCHANGED mainOther
    /\ s_result' = NoResult

\* time.sleep(0.5) returns
MainWaitSleep ==
    /\ Alive /\ m_pc = "sleep"
    /\ m_pc' = "wait"
    /\ s_out' = <<>>
    /\ UNCHANGED <<s_exit, s_end, is_running, connection, s_src_sr>>
    /\ UNCHANGED mainOther
    /\ s_result' = NoResult

\* KeyboardInterrupt in the wait loop: not an Exception, so it leaves the
\* with block (closing the connection) and both handlers of
\* initialize_deepgram_and_stream
MainInterrupt ==
    /\ Alive /\ m_pc \in {"wait", "sleep"}
    /\ m_pc' = "finally"
    /\ s_end' = "interrupted"
    /\ connection' = "closed"
    /\ s_out' = <<>>
    /\ UNCHANGED <<s_exit, is_running, s_src_sr>>
    /\ UNCHANGED mainOther
    /\ s_result' = NoResult

\* the exit code main() ends with: sys.exit(1) was called on a bad key and
\* on a failed connect; every other path returns from main()
ExitCodeOf(why) == IF why \in {"bad_key", "connect_fail"} THEN 1 ELSE 0

\* main()'s finally block
MainFinally ==
    /\ Alive /\ m_pc = "finally"
    /\ m_pc' = "return"
    /\ is_running' = FALSE
    /\ s_out' = <<Status("Deepgram transcription stopped")>>
    /\ UNCHANGED <<s_exit, s_end, connection, s_src_sr>>
    /\ UNCHANGED mainOther
    /\ s_result' = NoResult

\* main() is left: the handlers of the __main__ block, then the end of the
\* process, which does not wait for the daemon threads
MainExit ==
    /\ Alive /\ m_pc = "return"
    /\ m_pc' = "exited"
    /\ s_exit' = ExitCodeOf(s_end)
    /\ s_out' = IF s_end = "interrupted"
                THEN <<Status("Transcription stopped by user")>>
                ELSE <<>>
    /\ UNCHANGED <<s_end, is_running, connection, s_src_sr>>
    /\ UNCHANGED mainOther
    /\ s_result' = NoResult

MainStep ==
    \/ MainPreinit
    \/ MainConnect
    \/ MainStartListener
    \/ MainReady
    \/ MainReadyTimeout
    \/ MainStartKeepalive
    \/ MainStartCapture
    \/ MainWaitCheck
    \/ MainWaitSleep
    \/ MainFinally
    \/ MainExit

\* ---- listener thread ----

\* A message of the backend as handle_transcript reads it: whether it has
\* channel.alternatives, the transcript, and the two finality attributes.
Transcripts == {"", " ", "hi"}
Results ==
    {[kind |-> "metadata"]} \cup
    [kind : {"result"}, transcript : Transcripts, is_final : BOOLEAN,
     speech_final : {FALSE}] \cup
    {[kind |-> "result", transcript |-> "hi", is_final |-> FALSE,
      speech_final |-> TRUE]}

\* str.strip
Strip(t) == IF t = " " THEN "" ELSE t

\* transcription_log(text, confidence)
transcription_log(text, confidence) ==
    [type |-> "transcription", id |-> "ms", text |-> text,
     confidence |-> confidence]

\* handle_transcript(result): the records it prints
handle_transcript(result) ==
    IF result.kind # "result" THEN <<>>
    ELSE IF result.transcript = "" THEN <<>>
    ELSE LET clean_text == Strip(result.transcript)
         IN IF clean_text = "" THEN <<>>
            ELSE IF result.is_final \/ result.speech_final
            THEN <<transcription_log(clean_text, 900), Debug("Final")>>
            ELSE <<transcription_log(clean_text, 900)>>

listenerOther == <<m_pc, s_exit, s_end, is_running, s_src_sr,
                   audio_streaming_started, k_pc, k_count, c_pc, c_end,
                   s_audio_buffer, s_nread, s_chunks, wire,
                   batchVars, emitVars, safeVars, unitVars>>

\* EventType.OPEN: on_open
ListenerOpen ==
    /\ Alive /\ l_pc = "listening" /\ connection = "open"
    /\ ~connection_ready
    /\ connection_ready' = TRUE
    /\ s_out' = <<Status("Deepgram connection opened"),
                  Ready("deepgram", "deepgram")>>
    /\ UNCHANGED <<l_pc, connection, s_result>>
    /\ UNCHANGED listenerOther

\* EventType.MESSAGE: handle_transcript
ListenerMessage ==
    /\ Alive /\ l_pc = "listening" /\ connection = "open"
    /\ connection_ready
    /\ \E result \in Results :
         /\ s_result' = result
         /\ s_out' = handle_transcript(result)
    /\ UNCHANGED <<l_pc, connection, connection_ready>>
    /\ UNCHANGED listenerOther

\* EventType.ERROR: on_error
ListenerError ==
    /\ Alive /\ l_pc = "listening" /\ connection = "open"
    /\ s_result' = [kind |-> "error"]
    /\ s_out' = <<Error("Deepgram error type"), Error("Deepgram error"),
                  Error("Error args")>>
    /\ UNCHANGED <<l_pc, connection, connection_ready>>
    /\ UNCHANGED listenerOther

ListenerClose_StopsWorker ==
    /\ Alive /\ l_pc = "listening" /\ connection # "none"
    /\ l_pc' = "done"
    /\ connection' = "closed"
    /\ is_running' = FALSE
    /\ s_result' = [kind |-> "close"]
    /\ s_out' = <<Status("Deepgram connection closed")>>
    /\ UNCHANGED <<connection_ready, m_pc, s_exit, s_end, s_src_sr,
                   audio_streaming_started, k_pc, k_count, c_pc, c_end,
                   s_audio_buffer, s_nread, s_chunks, wire,
                   batchVars, emitVars, safeVars, unitVars>>

\* EventType.CLOSE: the socket is closed, by the backend or by the main
\* context leaving the with block; on_close, and start_listening returns
ListenerClose ==
    /\ Alive /\ l_pc = "listening" /\ connection # "none"
    /\ l_pc' = "done"
    /\ connection' = "closed"
    /\ s_result' = [kind |-> "close"]
    /\ s_out' = <<Status("Deepgram connection closed")>>
    /\ UNCHANGED connection_ready
    /\ UNCHANGED listenerOther

ListenerStep ==
    \/ ListenerOpen
    \/ ListenerMessage
    \/ ListenerError
    \/ ListenerClose

\* ---- keepalive thread ----

keepaliveOther == <<m_pc, s_exit, s_end, is_running, connection, s_src_sr,
                    connection_ready, audio_streaming_started, l_pc, c_pc,
                    c_end, s_audio_buffer, s_nread, s_chunks,
                    batchVars, emitVars, safeVars, unitVars>>

\* time.sleep(0.3), and every later time.sleep(0.5)
KeepaliveSleep ==
    /\ Alive /\ k_pc \in {"sleep0", "sleep"}
    /\ k_pc' = "check"
    /\ s_out' = <<>>
    /\ UNCHANGED <<k_count, wire>>
    /\ UNCHANGED keepaliveOther
    /\ s_result' = NoResult

KeepaliveCheck_IgnoresSignal ==
    /\ Alive /\ k_pc = "check"
    /\ k_pc' = "send"
    /\ s_out' = <<>>
    /\ UNCHANGED <<k_count, wire>>
    /\ UNCHANGED keepaliveOther
    /\ s_result' = NoResult

\* while not audio_streaming_started.is_set()
KeepaliveCheck ==
    /\ Alive /\ k_pc = "check"
    /\ k_pc' = IF audio_streaming_started THEN "stopping" ELSE "send"
    /\ s_out' = <<>>
    /\ UNCHANGED <<k_count, wire>>
    /\ UNCHANGED keepaliveOther
    /\ s_result' = NoResult

\* connection.send_media(silent_audio.tobytes()) returns; count += 1
KeepaliveSend ==
    /\ Alive /\ k_pc = "send"
    /\ connection = "open"
    /\ k_count < MaxKeepalive
    /\ wire' = Append(wire, "keepalive")
    /\ k_count' = k_count + 1
    /\ k_pc' = "sleep"
    /\ s_out' = IF (k_count + 1) % 4 = 0 THEN <<Debug("Keepalive active")>>
                ELSE <<>>
    /\ UNCHANGED keepaliveOther
    /\ s_result' = NoResult

\* connection.send_media raises: the handler logs the first failure, then
\* breaks out of the loop
KeepaliveSendFails ==
    /\ Alive /\ k_pc = "send"
    /\ k_pc' = "stopping"
    /\ s_out' = IF k_count = 0 THEN <<Debug("Keepalive warning (continuing)")>>
                ELSE <<>>
    /\ UNCHANGED <<k_count, wire>>
    /\ UNCHANGED keepaliveOther
    /\ s_result' = NoResult

\* after the loop
KeepaliveStopped ==
    /\ Alive /\ k_pc = "stopping"
    /\ k_pc' = "done"
    /\ s_out' = <<Debug("Keepalive stopped")>>
    /\ UNCHANGED <<k_count, wire>>
    /\ UNCHANGED keepaliveOther
    /\ s_result' = NoResult

KeepaliveStep ==
    \/ KeepaliveSleep
    \/ KeepaliveCheck
    \/ KeepaliveSend
    \/ KeepaliveSendFails
    \/ KeepaliveStopped

\* ---- capture thread ----

captureOther == <<m_pc, s_exit, s_end, is_running, connection, s_src_sr,
                  connection_ready, l_pc, k_pc, k_count,
                  batchVars, emitVars, safeVars, unitVars>>

\* pa.open(...): a failure is caught by the outer handler, which logs it
\* and lets the thread end
CaptureOpen ==
    /\ Alive /\ c_pc = "open"
    /\ \E opens \in BOOLEAN :
         IF opens
         THEN /\ c_pc' = "loop"
              /\ s_out' = <<Status("Starting direct audio streaming"),
                            Debug("Audio stream opened successfully")>>
              /\ UNCHANGED c_end
         ELSE /\ c_pc' = "done"
              /\ c_end' = "open_fail"
              /\ s_out' = <<Status("Starting direct audio streaming"),
                            Error("Audio capture error")>>
    /\ UNCHANGED <<audio_streaming_started, s_audio_buffer, s_nread, s_chunks, wire>>
    /\ UNCHANGED captureOther
    /\ s_result' = NoResult

\* while is_running and connection; after the loop the stream is closed
CaptureLoopTest ==
    /\ Alive /\ c_pc = "loop"
    /\ IF is_running /\ connection # "none"
       THEN c_pc' = "read" /\ UNCHANGED c_end
       ELSE c_pc' = "done" /\ c_end' = "stopped"
    /\ s_out' = <<>>
    /\ UNCHANGED <<audio_streaming_started, s_audio_buffer, s_nread, s_chunks, wire>>
    /\ UNCHANGED captureOther
    /\ s_result' = NoResult

\* stream.read returns: downmix, resample, append to audio_buffer
CaptureRead ==
    /\ Alive /\ c_pc = "read"
    /\ s_nread < MaxReads
    /\ s_nread' = s_nread + 1
    /\ s_audio_buffer' =
           s_audio_buffer + ResampleLen(frames_per_buffer, s_src_sr, TARGET_SR)
    /\ c_pc' = "chunk"
    /\ s_out' = <<>>
    /\ UNCHANGED <<audio_streaming_started, c_end, s_chunks, wire>>
    /\ UNCHANGED captureOther
    /\ s_result' = NoResult

CaptureReadFails_ClearsFlag ==
    /\ Alive /\ c_pc = "read"
    /\ c_pc' = "done"
    /\ c_end' = "read_fail"
    /\ is_running' = FALSE
    /\ s_out' = <<Debug("Audio capture error")>>
    /\ UNCHANGED <<audio_streaming_started, s_audio_buffer, s_nread, s_chunks, wire>>
    /\ UNCHANGED <<m_pc, s_exit, s_end, connection, s_src_sr,
                   connection_ready, l_pc, k_pc, k_count,
                   batchVars, emitVars, safeVars, unitVars>>
    /\ s_result' = NoResult

\* stream.read raises: the handler logs it and breaks out of the loop
CaptureReadFails ==
    /\ Alive /\ c_pc = "read"
    /\ c_pc' = "done"
    /\ c_end' = "read_fail"
    /\ s_out' = <<Debug("Audio capture error")>>
    /\ UNCHANGED <<audio_streaming_started, s_audio_buffer, s_nread, s_chunks, wire>>
    /\ UNCHANGED captureOther
    /\ s_result' = NoResult

\* chunk = audio_buffer[:min_send_samples]: where the slice starts in the
\* stream of resampled samples, and its length
chunk == [from |-> Captured - s_audio_buffer,
          len  |-> Min(s_audio_buffer, min_send_samples)]

\* while len(audio_buffer) >= min_send_samples: extract the next chunk
CaptureChunk ==
    /\ Alive /\ c_pc = "chunk"
    /\ IF s_audio_buffer >= min_send_samples
       THEN /\ s_audio_buffer' = s_audio_buffer - min_send_samples
            /\ IF connection # "none"
               THEN /\ c_pc' = "send"
                    /\ s_chunks' = Append(s_chunks, chunk)
               ELSE /\ c_pc' = "chunk"
                    /\ UNCHANGED s_chunks
       ELSE /\ c_pc' = "loop"
            /\ UNCHANGED <<s_audio_buffer, s_chunks>>
    /\ s_out' = <<>>
    /\ UNCHANGED <<audio_streaming_started, c_end, s_nread, wire>>
    /\ UNCHANGED captureOther
    /\ s_result' = NoResult

\* connection.send_media(pcm_data) returns
CaptureSend ==
    /\ Alive /\ c_pc = "send"
    /\ connection = "open"
    /\ wire' = Append(wire, "audio")
    /\ c_pc' = "mark"
    /\ s_out' = <<>>
    /\ UNCHANGED <<audio_streaming_started, c_end, s_audio_buffer, s_nread, s_chunks>>
    /\ UNCHANGED captureOther
    /\ s_result' = NoResult

CaptureSendFails_EndsLoop ==
    /\ Alive /\ c_pc = "send"
    /\ c_pc' = "done"
    /\ c_end' = "send_fail"
    /\ s_out' = <<Error("Failed to send audio to Deepgram")>>
    /\ UNCHANGED <<audio_streaming_started, s_audio_buffer, s_nread, s_chunks, wire>>
    /\ UNCHANGED captureOther
    /\ s_result' = NoResult

CaptureSendFails_Requeues ==
    /\ Alive /\ c_pc = "send"
    /\ c_pc' = "loop"
    /\ s_audio_buffer' = s_audio_buffer + min_send_samples
    /\ s_out' = <<Error("Failed to send audio to Deepgram")>>
    /\ UNCHANGED <<audio_streaming_started, c_end, s_nread, s_chunks, wire>>
    /\ UNCHANGED captureOther
    /\ s_result' = NoResult

\* connection.send_media raises: error_log and break, which leaves the
\* inner while loop only
CaptureSendFails ==
    /\ Alive /\ c_pc = "send"
    /\ c_pc' = "loop"
    /\ s_out' = <<Error("Failed to send audio to Deepgram")>>
    /\ UNCHANGED <<audio_streaming_started, c_end, s_audio_buffer, s_nread, s_chunks,
                   wire>>
    /\ UNCHANGED captureOther
    /\ s_result' = NoResult

\* after the send: audio_streaming_started.set(), send_count, the log of
\* the first five sends and of every hundredth
CaptureMark ==
    /\ Alive /\ c_pc = "mark"
    /\ audio_streaming_started' = TRUE
    /\ c_pc' = "chunk"
    /\ s_out' = IF send_count <= 5 \/ send_count % 100 = 0
                THEN <<Debug("Sent bytes to Deepgram")>> ELSE <<>>
    /\ UNCHANGED <<c_end, s_audio_buffer, s_nread, s_chunks, wire>>
    /\ UNCHANGED captureOther
    /\ s_result' = NoResult

CaptureStep ==
    \/ CaptureOpen
    \/ CaptureLoopTest
    \/ CaptureRead
    \/ CaptureReadFails
    \/ CaptureChunk
    \/ CaptureSend
    \/ CaptureSendFails
    \/ CaptureMark

StreamNext ==
    \/ MainStep
    \/ MainInterrupt
    \/ ListenerStep
    \/ KeepaliveStep
    \/ CaptureStep

SpecStream == Init /\ [][StreamNext]_vars

\* The threads and the main context keep running; the interrupt and the
\* backend's events are the environment's.
FairStream ==
    /\ SpecStream
    /\ WF_vars(MainStep)
    /\ WF_vars(KeepaliveStep)
    /\ WF_vars(CaptureStep)

\* the capture thread is between its start and its end
CaptureRunning == c_pc \notin {"unborn", "done"}

\* a real-audio send that does not return: connection.send_media raised
SendRaised == c_pc = "send" /\ c_pc' \notin {"send", "mark"}

\* C17: when a real-audio send raises, an error event is emitted, the chunk
\* is skipped (neither sent nor put back), and the capture thread is back
\* at the test of its loop, from which it reads and sends again; the
\* running flag, the connection and the main context are left as they were.
C17_SendFailureSkipsChunk ==
    /\ [][SendRaised =>
            /\ OfType(s_out', "error") # {}
            /\ c_pc' = "loop"
            /\ c_end' = "running"
            /\ wire' = wire
            /\ s_audio_buffer' = s_audio_buffer
            /\ is_running' = is_running
            /\ connection' = connection
            /\ <<m_pc, s_exit, s_end>>' = <<m_pc, s_exit, s_end>>]_vars
    /\ []((Alive /\ c_pc = "loop" /\ is_running) =>
             ENABLED (CaptureLoopTest /\ c_pc' = "read"))
    /\ []((Alive /\ c_pc = "read" /\ s_nread < MaxReads) => ENABLED CaptureRead)

\* a send has succeeded, the next one has just failed, and the session
\* goes on
C17_Witness ==
    /\ c_pc = "loop"
    /\ s_out = <<Error("Failed to send audio to Deepgram")>>
    /\ send_count > 0
    /\ is_running
    /\ connection = "open"
    /\ m_pc \in {"wait", "sleep"}

OpenTimedOut == s_end = "open_timeout"

\* C18: when the open event is not seen within the wait of 5 s, an error
\* event is emitted, the keepalive and the capture thread are never
\* started, the connection is closed and not opened again, and the worker
\* terminates.
C18_OpenTimeoutFatal ==
    /\ [][(m_pc = "wait_ready" /\ OpenTimedOut') =>
             OfType(s_out', "error") # {}]_vars
    /\ [](OpenTimedOut =>
             /\ k_pc = "unborn"
             /\ c_pc = "unborn"
             /\ connection = "closed"
             /\ m_pc \in {"finally", "return", "exited"}
             /\ wire = <<>>)
    /\ OpenTimedOut ~> (m_pc = "exited")

C18_Witness ==
    /\ OpenTimedOut
    /\ m_pc = "exited"
    /\ ~Alive
    /\ ~connection_ready

\* C19: the running flag is written by the main control context only: no
\* step of the capture, listener or keepalive thread changes it.
C19_FlagSingleWriter ==
    [][(CaptureStep \/ ListenerStep \/ KeepaliveStep) =>
           is_running' = is_running]_vars

\* the capture loop has ended on a failed read, the keepalive and the
\* listener have ended too, and the flag is still set
C19_Witness ==
    /\ c_pc = "done" /\ c_end = "read_fail"
    /\ k_pc = "done"
    /\ l_pc = "done"
    /\ is_running

\* C20 (capture thread): once the worker is stopped the capture thread
\* ends its loop and releases its device handles.
C20_CaptureReleases ==
    (~is_running /\ CaptureRunning) ~> (c_pc = "done")

\* keepalive_loop has left its while loop
KeepaliveLeft == k_pc \in {"stopping", "done"}

KeepaliveFrames(w) == Cardinality({i \in DOMAIN w : w[i] = "keepalive"})

\* C26: after the first successful send of real audio the keepalive
\* sentinel leaves its loop at some time while the process runs (fair
\* scheduling of the threads); with the streaming-started signal set its
\* loop test never lets it go on to a send, once it has left its loop no
\* keepalive frame is sent, the signal is never cleared and the sentinel is
\* started at most once.
C26_KeepaliveStopsForGood ==
    /\ (send_count >= 1) ~> (KeepaliveLeft \/ ~Alive)
    /\ [][(k_pc = "check" /\ audio_streaming_started) => k_pc' # "send"]_vars
    /\ [][KeepaliveLeft =>
            /\ KeepaliveLeft'
            /\ KeepaliveFrames(wire') = KeepaliveFrames(wire)]_vars
    /\ [][audio_streaming_started => audio_streaming_started']_vars
    /\ [][k_pc # "unborn" => k_pc' \notin {"unborn", "sleep0"} \/ k_pc' = k_pc]_vars

\* real audio has been sent after a keepalive frame, and the sentinel,
\* which found the signal set at its loop test, has ended
C26_Witness ==
    /\ Alive
    /\ k_pc = "done"
    /\ audio_streaming_started
    /\ KeepaliveFrames(wire) >= 1
    /\ send_count >= 1
    /\ wire[Len(wire)] = "audio"

\* the send of a keepalive frame raised
KeepaliveSendRaised ==
    k_pc = "send" /\ k_pc' # "send" /\ wire' = wire /\ s_exit' = s_exit

\* C27: a failed keepalive send does not stop the sentinel: it goes on to
\* its next interval.
C27_KeepaliveSurvivesFailure ==
    [][KeepaliveSendRaised => k_pc' = "sleep"]_vars

\* C28: no frame, keepalive or real audio, is on the connection before the
\* open event has been observed: the keepalive sentinel and the capture
\* context exist only after connection_ready is set, and every frame is
\* sent while the connection is open.
C28_NoSendBeforeOpen ==
    /\ [](k_pc # "unborn" => connection_ready)
    /\ [](c_pc # "unborn" => connection_ready)
    /\ [](wire # <<>> => connection_ready)
    /\ [][wire' # wire => connection_ready /\ connection = "open"]_vars

\* both kinds of frame have been sent
C28_Witness ==
    /\ connection_ready
    /\ KeepaliveFrames(wire) >= 1
    /\ send_count >= 1

-----------------------------------------------------------------------------
(***************************************************************************)
(* The event stream of the streaming worker.  Every print of a record,     *)
(* once the threads exist, is one of five sites; print writes the text of  *)
(* the record and then the line end, and flushes.                          *)
(***************************************************************************)

MaxEvents == 2

Sites == {"debug_log", "status_log", "error_log", "transcription_log",
          "on_open_ready"}

\* the sites each context reaches
SitesOf(c) ==
    CASE c = "main" -> {"debug_log", "status_log", "error_log"}
      [] c = "listener" -> {"status_log", "on_open_ready", "transcription_log",
                            "debug_log", "error_log"}
      [] c = "keepalive" -> {"debug_log"}
      [] c = "capture" -> {"status_log", "debug_log", "error_log"}

UsesLock_ReadyUnlocked(site) ==
    site \in {"debug_log", "status_log", "error_log", "transcription_log"}

\* whether the site prints inside "with stdout_lock:"
UsesLock(site) ==
    site \in {"debug_log", "status_log", "error_log", "transcription_log",
              "on_open_ready"}

emitOther == <<batchVars, streamVars, safeVars, unitVars>>

\* one record on a line of its own: its text, then its line end
IsRecord(out) ==
    /\ Len(out) = 2
    /\ out[1].part = "text"
    /\ out[2].part = "end"
    /\ out[2].who = out[1].who

\* a context reaches a print site and enters its with block
EmitEnter(c) ==
    /\ e_pc[c] = "idle"
    /\ e_done[c] < MaxEvents
    /\ \E site \in SitesOf(c) :
         /\ e_site' = [e_site EXCEPT ![c] = site]
         /\ IF UsesLock(site)
            THEN stdout_lock = "free" /\ stdout_lock' = c
            ELSE UNCHANGED stdout_lock
    /\ e_pc' = [e_pc EXCEPT ![c] = "entered"]
    /\ UNCHANGED <<e_done, stdout, e_records>>
    /\ UNCHANGED emitOther

\* print writes the text of the record
EmitText(c) ==
    /\ e_pc[c] = "entered"
    /\ stdout' = Append(stdout, [who |-> c, part |-> "text"])
    /\ e_pc' = [e_pc EXCEPT ![c] = "text"]
    /\ UNCHANGED <<stdout_lock, e_site, e_done, e_records>>
    /\ UNCHANGED emitOther

\* print writes the line end and flushes; the reader takes a complete line
EmitLineEnd(c) ==
    /\ e_pc[c] = "text"
    /\ LET out == Append(stdout, [who |-> c, part |-> "end"])
       IN  IF IsRecord(out)
           THEN stdout' = <<>> /\ e_records' = e_records + 1
           ELSE stdout' = out /\ UNCHANGED e_records
    /\ e_pc' = [e_pc EXCEPT ![c] = "line"]
    /\ UNCHANGED <<stdout_lock, e_site, e_done>>
    /\ UNCHANGED emitOther

EmitLeave_KeepsLock(c) ==
    /\ e_pc[c] = "line"
    /\ e_pc' = [e_pc EXCEPT ![c] = "idle"]
    /\ e_site' = [e_site EXCEPT ![c] = "none"]
    /\ e_done' = [e_done EXCEPT ![c] = @ + 1]
    /\ UNCHANGED <<stdout_lock, stdout, e_records>>
    /\ UNCHANGED emitOther

\* the with block is left
EmitLeave(c) ==
    /\ e_pc[c] = "line"
    /\ stdout_lock' = IF UsesLock(e_site[c]) THEN "free" ELSE stdout_lock
    /\ e_pc' = [e_pc EXCEPT ![c] = "idle"]
    /\ e_site' = [e_site EXCEPT ![c] = "none"]
    /\ e_done' = [e_done EXCEPT ![c] = @ + 1]
    /\ UNCHANGED <<stdout, e_records>>
    /\ UNCHANGED emitOther

EmitNext ==
    \E c \in Contexts :
        \/ EmitEnter(c)
        \/ EmitText(c)
        \/ EmitLineEnd(c)
        \/ EmitLeave(c)

SpecEmit ==
    Init /\ [][EmitNext]_vars

AllEmitted == \A c \in Contexts : e_done[c] = MaxEvents

\* Every context goes on with the emission it is in, and a context that
\* finds the lock free again and again does get it.
FairEmit ==
    /\ SpecEmit
    /\ \A c \in Contexts :
         /\ WF_vars(EmitText(c) \/ EmitLineEnd(c) \/ EmitLeave(c))
         /\ SF_vars(EmitEnter(c))

C2_EmissionsSerialized ==
    /\ \A c \in Contexts : e_pc[c] # "idle" => stdout_lock = c
    /\ (\A c \in Contexts : e_pc[c] = "idle") => stdout_lock = "free"
    /\ Cardinality({c \in Contexts : e_pc[c] # "idle"}) <= 1
    /\ \/ stdout = <<>>
       \/ /\ Len(stdout) = 1
          /\ stdout[1].part = "text"
          /\ e_pc[stdout[1].who] = "text"
    /\ e_records = e_done["main"] + e_done["listener"] + e_done["keepalive"]
                   + e_done["capture"]
                   + Cardinality({c \in Contexts : e_pc[c] = "line"})
    /\ AllEmitted =>
          /\ stdout = <<>>
          /\ e_records = Cardinality(Contexts) * MaxEvents

\* every emitter has written all its events, the ready record the last
C2_Witness ==
    /\ \A c \in Contexts \ {"listener"} : e_done[c] = MaxEvents
    /\ e_done["listener"] = MaxEvents - 1
    /\ e_pc["listener"] = "line"
    /\ e_site["listener"] = "on_open_ready"
    /\ e_records = Cardinality(Contexts) * MaxEvents

-----------------------------------------------------------------------------
(***************************************************************************)
(* Properties of the streaming worker                                      *)
(***************************************************************************)

\* C1: every keepalive send occurs strictly before the first real-audio
\* send, and no keepalive send occurs after the first real-audio send.
C1_KeepaliveBeforeAudio ==
    \A i, j \in DOMAIN wire :
        (wire[i] = "audio" /\ wire[j] = "keepalive") => j < i

DeviceErrors == {"open_fail", "read_fail"}

\* C7: when the capture loop ends because the stream open or a device read
\* failed, the running flag becomes false and the main control context
\* eventually leaves its wait loop and closes the connection.
C7_ShutdownSignalled ==
    (c_end \in DeviceErrors) ~>
        (~is_running /\ m_pc \notin {"wait", "sleep"} /\ connection = "closed")

TranscriptionsOf(out) == {i \in DOMAIN out : out[i].type = "transcription"}

\* C10: an interim or final result with text is forwarded as its own
\* transcription event, and that event carries a finality flag telling an
\* interim result from a final one.
C10_FinalityFlag ==
    (s_result.kind = "result" /\ Strip(s_result.transcript) # "") =>
        /\ Cardinality(TranscriptionsOf(s_out)) = 1
        /\ \A i \in TranscriptionsOf(s_out) :
              /\ s_out[i].text = Strip(s_result.transcript)
              /\ "is_final" \in DOMAIN s_out[i]
              /\ s_out[i].is_final = s_result.is_final

-----------------------------------------------------------------------------
(***************************************************************************)
(* The Deepgram-safe batch worker: loopback_transcribe_deepgram_safe.py    *)
(***************************************************************************)

MaxSafeReads == 3

safeOther == <<batchVars, streamVars, emitVars, unitVars>>

\* the process ends with this exit code
SafeExit(code, why, out) ==
    /\ f_pc' = "exited"
    /\ f_exit' = code
    /\ f_end' = why
    /\ f_out' = out
    /\ UNCHANGED <<f_broken, f_reads, f_engine, f_device>>

\* main()'s outer handler: report the fatal error, sys.exit(1)
SafeFatal(why, before) ==
    SafeExit(1, why, before \o <<Error("Fatal error")>>)

Fallback(m) == [type |-> "fallback", message |-> m, fallbackModel |-> "cpu"]

\* module level: read the environment, import Whisper or leave with 1
SafeImport ==
    /\ f_pc = "import"
    /\ UNCHANGED safeOther
    /\ \E engine \in {"openai", "faster"} :
         \/ /\ f_pc' = "load"
            /\ f_engine' = engine
            /\ f_out' = <<Debug("env"), Debug("imported")>>
            /\ UNCHANGED <<f_exit, f_end, f_broken, f_reads, f_device>>
         \/ /\ f_pc' = "exited"
            /\ f_exit' = 1
            /\ f_end' = "no_whisper"
            /\ f_engine' = engine
            /\ f_out' = <<Debug("env"), Error("Whisper not available"),
                          Error("Deepgram-only build")>>
            /\ UNCHANGED <<f_broken, f_reads, f_device>>

\* load_whisper_model() on the device get_optimal_device() chose
SafeLoad ==
    /\ f_pc = "load"
    /\ UNCHANGED safeOther
    /\ \E device \in {"cuda", "cpu"} :
         /\ f_device' = device
         /\ \/ /\ f_pc' = "resolve"
               /\ f_out' = <<Debug(device), Status("Loading"), Status("loaded")>>
               /\ UNCHANGED <<f_exit, f_end, f_broken, f_reads, f_engine>>
            \/ /\ f_engine = "faster" /\ device = "cuda"
               /\ f_pc' = "resolve"
               /\ f_out' = <<Debug(device), Status("Loading"),
                             Fallback("GPU loading failed")>>
               /\ UNCHANGED <<f_exit, f_end, f_broken, f_reads, f_engine>>
            \/ /\ f_pc' = "exited"
               /\ f_exit' = 1
               /\ f_end' = "load_fail"
               /\ f_out' = <<Debug(device), Status("Loading"),
                             Error("Failed to load"), Error("Fatal error")>>
               /\ UNCHANGED <<f_broken, f_reads, f_engine>>

\* find_loopback_device(): an index, or None with or without a report
SafeResolve ==
    /\ f_pc = "resolve"
    /\ UNCHANGED safeOther
    /\ \/ /\ f_pc' = "open"
          /\ f_out' = <<Status("Starting system audio capture...")>>
          /\ UNCHANGED <<f_exit, f_end, f_broken, f_reads, f_engine, f_device>>
       \/ SafeFatal("no_loopback", <<>>)
       \/ SafeFatal("no_loopback", <<Error("Failed to find loopback device")>>)

\* p.open(...)
SafeOpen ==
    /\ f_pc = "open"
    /\ UNCHANGED safeOther
    /\ \/ /\ f_pc' = "read"
          /\ f_out' = <<Status("Audio capture started successfully")>>
          /\ UNCHANGED <<f_exit, f_end, f_broken, f_reads, f_engine, f_device>>
       \/ SafeFatal("open_fail", <<>>)

ReadsAfter == Min(f_reads + 1, MaxSafeReads)

\* stream.read returns a chunk: a quiet one is skipped, another is
\* preprocessed and handed to transcribe_audio
SafeRead ==
    /\ f_pc = "read"
    /\ ~f_broken
    /\ UNCHANGED safeOther
    /\ f_reads' = ReadsAfter
    /\ f_out' = <<>>
    /\ \E loud \in BOOLEAN : f_pc' = IF loud THEN "transcribing" ELSE "read"
    /\ UNCHANGED <<f_exit, f_end, f_broken, f_engine, f_device>>

\* transcribe_audio returns: a text, nothing, or nothing after a failure
SafeTranscribeReturn ==
    /\ f_pc = "transcribing"
    /\ UNCHANGED safeOther
    /\ f_pc' = "read"
    /\ \E out \in {<<[type |-> "transcription", text |-> "hi",
                      timestamp |-> "now"]>>,
                   <<>>,
                   <<Error("Transcription failed")>>} : f_out' = out
    /\ UNCHANGED <<f_exit, f_end, f_broken, f_reads, f_engine, f_device>>

\* stream.read raises: the inner handler reports it and pauses
SafeReadFails ==
    /\ f_pc = "read"
    /\ UNCHANGED safeOther
    /\ f_reads' = ReadsAfter
    /\ f_pc' = "pause"
    /\ f_out' = <<Error("Processing error")>>
    /\ UNCHANGED <<f_exit, f_end, f_broken, f_engine, f_device>>

\* time.sleep(0.1) returns and the loop goes on
SafePause ==
    /\ f_pc = "pause"
    /\ UNCHANGED safeOther
    /\ f_pc' = "read"
    /\ f_out' = <<>>
    /\ UNCHANGED <<f_exit, f_end, f_broken, f_reads, f_engine, f_device>>

\* KeyboardInterrupt inside the inner try: break, cleanup, return
SafeInterrupt ==
    /\ f_pc \in {"read", "transcribing"}
    /\ UNCHANGED safeOther
    /\ SafeExit(0, "interrupted", <<>>)

\* the device goes away: every read from now on raises
DeviceBreaks ==
    /\ f_pc \in {"read", "transcribing", "pause"}
    /\ ~f_broken
    /\ UNCHANGED safeOther
    /\ f_broken' = TRUE
    /\ UNCHANGED <<f_pc, f_exit, f_end, f_reads, f_engine, f_device, f_out>>

\* the steps the worker takes by itself
SafeStep ==
    \/ SafeImport
    \/ SafeLoad
    \/ SafeResolve
    \/ SafeOpen
    \/ SafeRead
    \/ SafeTranscribeReturn
    \/ SafeReadFails
    \/ SafePause

SafeNext ==
    \/ SafeStep
    \/ SafeInterrupt
    \/ DeviceBreaks

SpecSafe == Init /\ [][SafeNext]_vars

\* the worker's own steps are taken when they can be; the interrupt and the
\* loss of the device are the environment's
FairSafe == SpecSafe /\ WF_vars(SafeStep)

\* C8: in the Deepgram-safe worker a device read failure terminates the
\* capture loop: once every device read fails, the worker leaves the loop
\* and ends instead of retrying for ever.
C8_ReadFailureEndsLoop == f_broken ~> (f_pc = "exited")

-----------------------------------------------------------------------------
(***************************************************************************)
(* Properties of the records the three workers print                       *)
(***************************************************************************)

\* C11: every transcription event of the streaming worker, the batch worker
\* and the Deepgram-safe batch worker has the fields id, text and confidence.
C11_TranscriptionFields ==
    /\ HasFields(s_out, "transcription", {"id", "text", "confidence"})
    /\ HasFields(b_out, "transcription", {"id", "text", "confidence"})
    /\ HasFields(f_out, "transcription", {"id", "text", "confidence"})

\* C12: every record a worker prints has one of the five types ready,
\* status, debug, error, transcription, on the model-loading fallback paths
\* too.
C12_KnownTypes ==
    /\ \A i \in DOMAIN s_out : s_out[i].type \in EventTypes
    /\ \A i \in DOMAIN b_out : b_out[i].type \in EventTypes
    /\ \A i \in DOMAIN f_out : f_out[i].type \in EventTypes

\* C13: every record of type error has its description in a field named
\* error, on every error path, a failure of the batch engine's transcribe
\* call included.
C13_ErrorField ==
    /\ HasFields(s_out, "error", {"error"})
    /\ HasFields(b_out, "error", {"error"})
    /\ HasFields(f_out, "error", {"error"})

\* C14 (Deepgram-safe batch worker): a run that emits a transcription event
\* emits a ready event, which the claim places before it.
C14_ReadyEmitted ==
    (<>(OfType(f_out, "transcription") # {})) => (<>(OfType(f_out, "ready") # {}))

-----------------------------------------------------------------------------
(***************************************************************************)
(* Properties of the batch worker's start and of its error handling        *)
(***************************************************************************)

\* fallback attempts announced in the records of a step
Fallbacks(out) ==
    Cardinality({i \in DOMAIN out : out[i] = Status("Falling back")})

\* C15: a load or self-test failure of the batch worker's model is reported
\* as an error event and followed by at most one fallback attempt, to the
\* base model; the capture loop starts only with the requested model or the
\* fallback model loaded and tested; when the fallback fails too, or the
\* requested model was the base model, the process exits non-zero.
C15_ModelInit ==
    /\ b_pc \in {"resolve", "open", "read", "transcribing"} =>
          /\ b_model # "none"
          /\ b_model \in {b_requested, "base"}
    /\ b_pc = "resolve" =>
          /\ Cardinality(OfType(b_out, "ready")) = 1
          /\ b_out[Len(b_out)].type = "ready"
          /\ b_out[Len(b_out)].model = b_model
          /\ Fallbacks(b_out) <= 1
          /\ (OfType(b_out, "error") # {}) <=> (Fallbacks(b_out) = 1)
          /\ Fallbacks(b_out) = 1 => b_requested # "base" /\ b_model = "base"
          /\ \A i \in DOMAIN b_out :
                b_out[i] = Status("Falling back") =>
                    \E j \in 1..(i - 1) : b_out[j].type = "error"
    /\ b_end = "model_fail" =>
          /\ b_pc = "exited"
          /\ b_exit # NoExit /\ b_exit # 0
          /\ b_model = "none"
          /\ OfType(b_out, "error") # {}
          /\ Fallbacks(b_out) <= 1
          /\ b_requested = "base" => Fallbacks(b_out) = 0

\* the requested model fails its self-test and the base model takes over
C15_Witness ==
    /\ b_pc = "resolve"
    /\ b_requested = "medium"
    /\ b_model = "base"
    /\ \E i \in DOMAIN b_out : b_out[i] = Error("Model test failed")
    /\ Fallbacks(b_out) = 1

\* the enhancer's filter stage raised in the last iteration
EnhancerRaised == b_last = "enhancer_raised"

\* C16: an exception of a stage of the enhancer on the dispatch path is
\* absorbed by that stage; the capture loop does not end because of it.
C16_EnhancerAbsorbed == EnhancerRaised => b_pc # "exited"


(***************************************************************************)
(* Device resolution, call by call: main() of loopback_transcribe.py,      *)
(* preinitialize_audio_device() of deepgram_transcribe.py and              *)
(* find_loopback_device() of loopback_transcribe_deepgram_safe.py          *)
(***************************************************************************)

Resolvers == {"batch", "stream", "safe"}

\* what get_host_api_info_by_type reports: no default output device, a
\* default output that is an ordinary device, or one that is itself a
\* loopback device
Defaults == {"none", "output", "loopback"}

resolveOther == <<batchVars, streamVars, emitVars, safeVars, resampleVars,
                  moonVars>>

\* a default output that is itself a loopback device is one of the devices
\* that carry its name
NamedLoopbacks(devs) == {i \in DOMAIN devs : devs[i] \in {"match", "twin"}}

\* pa = pyaudio.PyAudio()
ResolveEnter ==
    /\ r_pc = "idle"
    /\ \E w \in Resolvers, devs \in DeviceLists, d \in Defaults :
         /\ d = "loopback" => NamedLoopbacks(devs) # {}
         /\ r_worker' = w
         /\ r_devs' = devs
         /\ r_default' = d
    /\ r_pc' = "host"
    /\ r_handle' = "open"
    /\ r_out' = <<>>
    /\ UNCHANGED <<r_index, r_end>>
    /\ UNCHANGED resolveOther

\* the resolver is left: by a return, or by an exception nobody catches
ResolveLeave(how, why, handle, out) ==
    /\ r_pc' = how
    /\ r_end' = why
    /\ r_handle' = handle
    /\ r_out' = out
    /\ UNCHANGED <<r_worker, r_devs, r_default>>

\* a call on the PyAudio object raises.  main() of the batch worker has no
\* handler around the enumeration; preinitialize_audio_device logs and
\* returns None; find_loopback_device prints, and its finally terminates
ResolveRaised ==
    /\ UNCHANGED r_index
    /\ CASE r_worker = "batch" ->
              ResolveLeave("raised", "exception", r_handle, <<>>)
         [] r_worker = "stream" ->
              ResolveLeave("returned", "exception", r_handle,
                           <<Error("Audio device pre-initialization error")>>)
         [] OTHER ->
              ResolveLeave("returned", "exception", "terminated",
                           <<Error("Failed to find loopback device")>>)

\* get_host_api_info_by_type and the default output device
ResolveHost ==
    /\ r_pc = "host"
    /\ UNCHANGED resolveOther
    /\ \E raises \in BOOLEAN :
         IF raises \/ (r_worker = "safe" /\ r_default = "none")
         THEN ResolveRaised
         ELSE CASE r_worker = "batch" /\ r_default = "none" ->
                     /\ ResolveLeave("returned", "no_default", r_handle,
                                     <<Error("no default output")>>)
                     /\ UNCHANGED r_index
                [] r_worker = "stream" /\ r_default = "none" ->
                     /\ ResolveLeave("returned", "no_default", "terminated",
                                     <<Error("no default output")>>)
                     /\ UNCHANGED r_index
                [] r_worker = "safe" /\ r_default = "loopback" ->
                     /\ \E i \in NamedLoopbacks(r_devs) : r_index' = i
                     /\ ResolveLeave("returned", "found", "terminated", <<>>)
                [] OTHER ->
                     /\ r_pc' = "scan"
                     /\ r_out' = <<>>
                     /\ UNCHANGED <<r_worker, r_devs, r_default, r_handle,
                                    r_index, r_end>>

\* the loop over the devices that looks for the default output's name; in
\* find_loopback_device it runs over get_loopback_device_info_generator(),
\* has no host API test, and is the only loop
ResolveScan ==
    /\ r_pc = "scan"
    /\ UNCHANGED resolveOther
    /\ \E raises \in BOOLEAN :
         IF raises
         THEN ResolveRaised
         ELSE IF r_worker = "safe"
         THEN /\ r_index' = FirstIndex(r_devs, {"match", "twin"})
              /\ ResolveLeave("returned",
                              IF r_index' # 0 THEN "found" ELSE "not_found",
                              "terminated", <<>>)
         ELSE /\ r_index' = ExactIndex(r_devs)
              /\ r_pc' = IF r_index' # 0 THEN "params" ELSE "fallback"
              /\ r_out' = <<>>
              /\ UNCHANGED <<r_worker, r_devs, r_default, r_handle, r_end>>

\* the second loop, entered when loopback_index is still None
ResolveFallback ==
    /\ r_pc = "fallback"
    /\ UNCHANGED resolveOther
    /\ \E raises \in BOOLEAN :
         IF raises
         THEN ResolveRaised
         ELSE /\ r_index' = AnyIndex(r_devs)
              /\ IF r_index' # 0
                 THEN /\ r_pc' = "params"
                      /\ r_out' = <<>>
                      /\ UNCHANGED <<r_worker, r_devs, r_default, r_handle,
                                     r_end>>
                 ELSE ResolveLeave("returned", "no_loopback",
                                   IF r_worker = "stream" THEN "terminated"
                                   ELSE r_handle,
                                   <<Error("no loopback device")>>)

\* get_device_info_by_index(loopback_index): the streaming worker terminates
\* and returns the parameters, the batch worker goes on to open the stream
\* on the same PyAudio object
ResolveParams ==
    /\ r_pc = "params"
    /\ UNCHANGED resolveOther
    /\ \E raises \in BOOLEAN :
         IF raises
         THEN ResolveRaised
         ELSE /\ UNCHANGED r_index
              /\ IF r_worker = "stream"
                 THEN ResolveLeave("returned", "found", "terminated", <<>>)
                 ELSE ResolveLeave("capture", "found", r_handle, <<>>)

ResolveNext ==
    \/ ResolveEnter
    \/ ResolveHost
    \/ ResolveScan
    \/ ResolveFallback
    \/ ResolveParams

SpecResolve == Init /\ [][ResolveNext]_vars

(***************************************************************************)
(* C21: in the batch and the streaming worker the resolver that finds a    *)
(* device returns the first loopback device of the default output's host   *)
(* API that carries the default output's name whenever the enumeration has *)
(* one, returns another loopback device of that host API only when it has  *)
(* none, and reports that there is no loopback device only when that host  *)
(* API has no loopback device at all.                                      *)
(***************************************************************************)
Matching(devs) == {i \in DOMAIN devs : devs[i] = "match"}

OnHostApi(devs) == {i \in DOMAIN devs : devs[i] \in {"match", "loop"}}

C21_ExactMatchFirst ==
    r_worker \in {"batch", "stream"} =>
      /\ r_end = "found" =>
           IF Matching(r_devs) # {}
           THEN /\ r_index \in Matching(r_devs)
                /\ \A j \in Matching(r_devs) : r_index <= j
           ELSE /\ r_index \in OnHostApi(r_devs)
                /\ \A j \in OnHostApi(r_devs) : r_index <= j
      /\ r_end = "no_loopback" => OnHostApi(r_devs) = {}
      /\ (r_pc = "params" /\ Matching(r_devs) # {}) =>
           r_index \in Matching(r_devs)

\* a device that only the second loop accepts stands before the matching one
C21_Witness ==
    /\ r_worker \in {"batch", "stream"}
    /\ r_end = "found"
    /\ Len(r_devs) = 2
    /\ r_devs[1] = "loop"
    /\ r_devs[2] = "match"
    /\ r_index = 2

(***************************************************************************)
(* C22: on every path on which device resolution returns (device found,    *)
(* no default output device, no loopback device, exception during the      *)
(* enumeration) terminate has been called on the PyAudio object before     *)
(* the return.                                                             *)
(***************************************************************************)
C22_HandleReleased == r_pc = "returned" => r_handle = "terminated"


(***************************************************************************)
(* resample_linear (loopback_transcribe.py and deepgram_transcribe.py,     *)
(* the same text in both), on sample values                                *)
(***************************************************************************)

MaxSamples == 3

\* sample values in thousandths of full scale
SampleValues == {0 - 1000, 0, 1000}

Buffers == UNION {[1..n -> SampleValues] : n \in 0..MaxSamples}

Zeros(n) == [j \in 1..n |-> 0]

SameRate_Never(src_sr, dst_sr) == FALSE

\* if src_sr == dst_sr
SameRate(src_sr, dst_sr) == src_sr = dst_sr

ShortInput_OutputOnly(n, dst_len) == dst_len <= 1

\* if dst_len <= 1 or len(data) <= 1
ShortInput(n, dst_len) == dst_len <= 1 \/ n <= 1

\* np.interp(x_new, x_old, data) with x_old = i/len(data), x_new = j/dst_len:
\* output sample j lies between input samples floor(j*n/dst_len) and the
\* next one, and past the last input sample the last value is held.  The
\* float32 result is kept to the thousandth.
Interp(data, dst_len) ==
    LET n == Len(data)
    IN [j \in 1..dst_len |->
          LET i == ((j - 1) * n) \div dst_len
              rest == (j - 1) * n - i * dst_len
          IN IF i + 2 > n
             THEN data[n]
             ELSE data[i + 1]
                    + ((data[i + 2] - data[i + 1]) * rest) \div dst_len]

resample_linear(data, src_sr, dst_sr) ==
    IF SameRate(src_sr, dst_sr)
    THEN data
    ELSE LET dst_len == (Len(data) * dst_sr) \div src_sr
         IN IF ShortInput(Len(data), dst_len)
            THEN Zeros(dst_len)
            ELSE Interp(data, dst_len)

resampleOther == <<batchVars, streamVars, emitVars, safeVars, resolveVars,
                   moonVars>>

\* the caller's arguments
ResampleCall ==
    /\ rs_pc = "idle"
    /\ rs_pc' = "called"
    /\ rs_data' \in Buffers
    /\ rs_src_sr' \in DeviceRates
    /\ rs_dst_sr' \in DeviceRates
    /\ UNCHANGED rs_result
    /\ UNCHANGED resampleOther

ResampleReturn ==
    /\ rs_pc = "called"
    /\ rs_pc' = "returned"
    /\ rs_result' = resample_linear(rs_data, rs_src_sr, rs_dst_sr)
    /\ UNCHANGED <<rs_data, rs_src_sr, rs_dst_sr>>
    /\ UNCHANGED resampleOther

ResampleNext ==
    \/ ResampleCall
    \/ ResampleReturn

SpecResample == Init /\ [][ResampleNext]_vars

(***************************************************************************)
(* C23: resample_linear called with src_sr equal to dst_sr returns the     *)
(* input samples unchanged, same length and same values, for every buffer, *)
(* the empty and the single-sample buffer included.                        *)
(***************************************************************************)
C23_SameRateIdentity ==
    (rs_pc = "returned" /\ rs_src_sr = rs_dst_sr) =>
      /\ Len(rs_result) = Len(rs_data)
      /\ \A i \in 1..Len(rs_data) : rs_result[i] = rs_data[i]

\* a single sample that is not zero, at equal rates
C23_Witness ==
    /\ rs_pc = "returned"
    /\ rs_src_sr = rs_dst_sr
    /\ Len(rs_data) = 1
    /\ rs_data[1] # 0
    /\ rs_result = rs_data

(***************************************************************************)
(* C24: for every input of length <= 1 and every pair of rates, equal      *)
(* rates included, resample_linear returns a buffer of length              *)
(* floor(len * dst_sr / src_sr) whose samples are all zero.                *)
(***************************************************************************)
ComputedLen == (Len(rs_data) * rs_dst_sr) \div rs_src_sr

C24_ShortInputZero ==
    (rs_pc = "returned" /\ Len(rs_data) <= 1) =>
      /\ Len(rs_result) = ComputedLen
      /\ \A j \in 1..Len(rs_result) : rs_result[j] = 0

\* C24 as the code has it: for every input of length <= 1 and every pair of
\* different rates the result is the zero buffer of the computed length;
\* at equal rates the input comes back unchanged, so a single sample that
\* is not zero stays.
C24_ShortInputZeroUnlessSameRate ==
    (rs_pc = "returned" /\ Len(rs_data) <= 1) =>
      IF rs_src_sr = rs_dst_sr
      THEN rs_result = rs_data
      ELSE /\ Len(rs_result) = ComputedLen
           /\ \A j \in 1..Len(rs_result) : rs_result[j] = 0

\* one sample that is not zero, resampled upwards to three samples
C24_Witness ==
    /\ rs_pc = "returned"
    /\ Len(rs_data) = 1
    /\ rs_data[1] # 0
    /\ rs_src_sr = 16000
    /\ rs_dst_sr = 48000
    /\ rs_result = <<0, 0, 0>>


(***************************************************************************)
(* The Moonshine worker: moonshine_transcribe.py                           *)
(***************************************************************************)

MaxLines == 4

\* What sys.stdin.readline can deliver:
\*   "eof"        the empty string: end of file, or nothing connected
\*   "blank"      a line of white space only
\*   "garbage"    text that json.loads rejects
\*   "nonobject"  text that json.loads accepts and that is not an object
\*                (a number, a string, a list, null)
\*   "notype"     an object without a type
\*   "unknown"    an object whose type is none of the three known ones
\*   "keepalive", "shutdown"
\*   "transcribe_nob64"  a transcribe message without audio_base64
\*   "transcribe_bad"    a transcribe message whose audio cannot be decoded
\*   "transcribe"        a transcribe message with decodable audio
Lines == {"eof", "blank", "garbage", "nonobject", "notype", "unknown",
          "keepalive", "shutdown", "transcribe_nob64", "transcribe_bad",
          "transcribe"}

moonOther == <<batchVars, streamVars, emitVars, safeVars, resolveVars,
               resampleVars>>

ErrorFor(e) == [type |-> "error", id |-> "uid", error |-> e]

Result(text) == [type |-> "result", id |-> "uid", text |-> text]

MoonExit(code, why, out) ==
    /\ mn_pc' = "exited"
    /\ mn_exit' = code
    /\ mn_end' = why
    /\ mn_out' = out
    /\ UNCHANGED <<mn_raw, mn_lines, mn_tmp>>

\* import moonshine_onnx, then the ready record
MoonImport ==
    /\ mn_pc = "import"
    /\ UNCHANGED moonOther
    /\ \E installed \in BOOLEAN :
         IF installed
         THEN /\ mn_pc' = "read"
              /\ mn_out' = <<[type |-> "ready", model |-> "moonshine/base"]>>
              /\ UNCHANGED <<mn_exit, mn_end, mn_raw, mn_lines, mn_tmp>>
         ELSE MoonExit(1, "no_module", <<Error("moonshine_onnx not installed")>>)

\* read_stdin_line_blocking and `if raw is None: continue`
MoonRead ==
    /\ mn_pc = "read"
    /\ mn_lines < MaxLines
    /\ mn_lines' = mn_lines + 1
    /\ \E line \in Lines :
         /\ mn_raw' = line
         /\ mn_pc' = IF line = "eof" THEN "read" ELSE "parse"
    /\ mn_out' = <<>>
    /\ UNCHANGED <<mn_exit, mn_end, mn_tmp>>
    /\ UNCHANGED moonOther

\* json.loads(raw), msg.get("type") and the tests on mtype, up to the
\* decoding of the audio.  msg.get is outside every try: on a value that
\* has no get method it raises AttributeError and the interpreter ends the
\* process with exit code 1.
MoonParse ==
    /\ mn_pc = "parse"
    /\ UNCHANGED moonOther
    /\ CASE mn_raw \in {"blank", "garbage"} ->
              /\ mn_pc' = "read"
              /\ mn_out' = <<Error("Invalid JSON")>>
              /\ UNCHANGED <<mn_exit, mn_end, mn_raw, mn_lines, mn_tmp>>
         [] mn_raw = "nonobject" ->
              MoonExit(1, "uncaught", <<>>)
         [] mn_raw = "shutdown" ->
              /\ mn_pc' = "shutdown"
              /\ mn_out' = <<>>
              /\ UNCHANGED <<mn_exit, mn_end, mn_raw, mn_lines, mn_tmp>>
         [] mn_raw = "transcribe_nob64" ->
              /\ mn_pc' = "read"
              /\ mn_out' = <<ErrorFor("Missing audio_base64")>>
              /\ UNCHANGED <<mn_exit, mn_end, mn_raw, mn_lines, mn_tmp>>
         [] mn_raw \in {"transcribe_bad", "transcribe"} ->
              /\ mn_pc' = "decode"
              /\ mn_out' = <<>>
              /\ UNCHANGED <<mn_exit, mn_end, mn_raw, mn_lines, mn_tmp>>
         [] OTHER ->
              /\ mn_pc' = "read"
              /\ mn_out' = <<>>
              /\ UNCHANGED <<mn_exit, mn_end, mn_raw, mn_lines, mn_tmp>>

\* decode_wav_base64: the temporary file, or None after an error record
MoonDecode ==
    /\ mn_pc = "decode"
    /\ UNCHANGED moonOther
    /\ IF mn_raw = "transcribe_bad"
       THEN /\ mn_pc' = "read"
            /\ mn_out' = <<Error("Base64 decode failed"), Result("")>>
            /\ UNCHANGED mn_tmp
       ELSE /\ mn_pc' = "transcribe"
            /\ mn_tmp' = "exists"
            /\ mn_out' = <<>>
    /\ UNCHANGED <<mn_exit, mn_end, mn_raw, mn_lines>>

\* transcribe_audio, the result or the error record, and cleanup_temp_file
\* in the finally
MoonTranscribe ==
    /\ mn_pc = "transcribe"
    /\ UNCHANGED moonOther
    /\ mn_pc' = "read"
    /\ mn_tmp' = "none"
    /\ \E outcome \in {"text", "empty", "raises"} :
         mn_out' = CASE outcome = "text" -> <<Result("hi")>>
                     [] outcome = "empty" -> <<Result("")>>
                     [] OTHER -> <<ErrorFor("Moonshine transcription failed")>>
    /\ UNCHANGED <<mn_exit, mn_end, mn_raw, mn_lines>>

\* break, then sys.exit(0)
MoonShutdown ==
    /\ mn_pc = "shutdown"
    /\ MoonExit(0, "shutdown", <<>>)
    /\ UNCHANGED moonOther

MoonNext ==
    \/ MoonImport
    \/ MoonRead
    \/ MoonParse
    \/ MoonDecode
    \/ MoonTranscribe
    \/ MoonShutdown

SpecMoon == Init /\ [][MoonNext]_vars

(***************************************************************************)
(* C25: once the Moonshine worker is in its message loop, the process      *)
(* ends only after a message of type shutdown has been received, and then  *)
(* with exit code 0: end of file, malformed JSON, keepalive and unknown    *)
(* messages leave the loop running.                                        *)
(***************************************************************************)
C25_OnlyShutdownEnds ==
    (mn_pc = "exited" /\ mn_end # "no_module") =>
      /\ mn_raw = "shutdown"
      /\ mn_exit = 0


(***************************************************************************)
(* C29: after every dispatch of the batch worker the rolling buffer is     *)
(* exactly the last 0.5 s (8000 samples) of the window that was            *)
(* dispatched, whatever the length of the buffer was at dispatch time.     *)
(***************************************************************************)
Dispatched == b_pc = "read" /\ b_last = "dispatch"

C29_OnlyOverlapKept ==
    Dispatched =>
      /\ BufLen(audio_buffer) = overlap_size
      /\ audio_buffer = TakeLast(b_call.runs, overlap_size)

(***************************************************************************)
(* C30: the batch worker enhances and dispatches a window only if the      *)
(* Speech Activity Detector classifies the decision window, the most       *)
(* recent second, as speech; the energy gate alone does not dispatch.      *)
(***************************************************************************)

\* detect_speech_activity on a decision window.  The window is one frame,
\* of one kind: silence has no energy; a constant offset has energy, no
\* zero crossing and its whole spectrum at 0 Hz, so neither the crossing
\* rate (0.01 .. 0.3) nor the centroid (200 .. 4000 Hz) is in its band; a
\* speech-level tone is inside both.
detect_speech_activity(runs) ==
    IF runs = <<>> THEN FALSE
    ELSE LET has_energy == EnergyExceeds(runs, 1)
             has_speech_zcr == "sp" \in KindsOf(runs)
             has_speech_spectrum == "sp" \in KindsOf(runs)
         IN has_energy /\ (has_speech_zcr \/ has_speech_spectrum)

\* the decision window of the iteration that has handed a window to the
\* backend: the buffer is cut only after the backend has returned
DecisionWindow == TakeLast(audio_buffer, process_samples)

C30_DetectorGatesDispatch ==
    b_pc = "transcribing" => detect_speech_activity(DecisionWindow)


(***************************************************************************)
(* C31: an iteration of the batch worker in which the mean square of the   *)
(* most recent second does not exceed the silence threshold makes no       *)
(* backend call, prints no transcription, and removes exactly 0.5 s (8000  *)
(* samples) from the front of the buffer.                                  *)
(***************************************************************************)

\* one pass of the loop body that starts with a read of a frame
Iteration == b_pc = "read" /\ b_nread' = b_nread + 1

\* the buffer of the iteration before any trim: the frame appended, the
\* whole cut to the last five seconds.  The frame's kind is the kind of the
\* last run of what the iteration leaves.
LastKind(runs) == runs[Len(runs)][1]

Appended ==
    LET all == Extend(audio_buffer, LastKind(audio_buffer'), process_samples)
    IN TakeLast(all, Min(BufLen(all), max_buffer_samples))

\* the most recent second of the iteration's buffer: every frame is one
\* second long after the resampling, so it is the frame just read
RecentSecond == <<(<<LastKind(audio_buffer'), process_samples>>)>>

C31_SilenceTrims ==
    /\ [][(Iteration /\ audio_buffer' # <<>>
            /\ ~EnergyExceeds(RecentSecond, silence_threshold_milli))
          => /\ b_last' = "silence"
             /\ b_pc' = "read"
             /\ b_call' = b_call
             /\ OfType(b_out', "transcription") = {}]_vars
    /\ [][(Iteration /\ b_last' = "silence")
          => /\ ~EnergyExceeds(TakeLast(Appended, process_samples),
                               silence_threshold_milli)
             /\ BufLen(audio_buffer')
                  = BufLen(Appended) - silence_remove_samples
             /\ audio_buffer' = DropFirst(Appended, silence_remove_samples)]_vars

\* a silent iteration on a buffer that held speech: more than the last
\* second is left
C31_Witness ==
    /\ b_pc = "read"
    /\ b_last = "silence"
    /\ "sp" \in KindsOf(audio_buffer)
    /\ BufLen(audio_buffer) > process_samples

(***************************************************************************)
(* C32: the batch backend is never called for a window whose enhanced peak *)
(* is at or below the minimum-volume floor (0.01); such an iteration       *)
(* prints no transcription and trims the buffer as after a dispatch: the   *)
(* window length less the overlap comes off the front.                     *)
(***************************************************************************)
C32_VolumeFloor ==
    /\ [](b_pc = "transcribing" => b_call.peak > min_volume_milli)
    /\ [][(Iteration /\ b_last' = "low_volume")
            => /\ b_pc' = "read"
               /\ b_call' = b_call
               /\ OfType(b_out', "transcription") = {}
               /\ window_size' = Min(max_window_samples, BufLen(Appended))
               /\ audio_buffer' =
                    DropFirst(Appended, window_size' - overlap_size)]_vars
    /\ [][(Iteration /\ b_pc' = "read" /\ audio_buffer' # <<>>
             /\ EnergyExceeds(TakeLast(Appended, process_samples),
                              silence_threshold_milli)
             /\ IsConstant(TakeLast(Appended, max_window_samples)))
            => b_last' = "low_volume"]_vars

\* a window of constant offset, longer than the overlap, was held back
C32_Witness ==
    /\ b_pc = "read"
    /\ b_last = "low_volume"
    /\ window_size > process_samples
    /\ BufLen(audio_buffer) = overlap_size
    /\ KindsOf(audio_buffer) = {"dc"}


(***************************************************************************)
(* C33: for every dispatched window the audio the engine's transcribe call *)
(* receives is the extracted window after exactly one application of the   *)
(* enhancer chain.                                                         *)
(***************************************************************************)

\* transcribe_wav_base64 up to the engine call: the WAV is decoded and
\* audio_enhanced = enhance_audio_for_speech(audio_float, TARGET_SR) is what
\* model.transcribe / faster_model.transcribe is given
audio_enhanced == enhance_audio_for_speech(b_call)

C33_EnhancedOnce ==
    b_pc = "transcribing" => audio_enhanced.passes = 1

(***************************************************************************)
(* C34: each batch transcribe call that returns a non-empty text results   *)
(* in exactly one transcription event carrying that text; each call that   *)
(* fails or returns the empty text results in none, and the loop goes on.   *)
(***************************************************************************)
CallReturned == b_result.kind = "returned"

TextEvents == {i \in DOMAIN b_out : b_out[i].type = "transcription"}

OneEventWith(text) ==
    /\ Cardinality(TextEvents) = 1
    /\ \A i \in TextEvents : b_out[i].text = text

C34_NonEmptyForwarded ==
    CallReturned =>
      /\ b_pc = "read"
      /\ IF b_result.text # "" /\ ~b_result.error
         THEN OneEventWith(b_result.text)
         ELSE TextEvents = {}

\* C34 as the code has it: a returned text of three or more characters
\* results in exactly one transcription event carrying it; a call that
\* fails, or returns the empty text or a text of one or two characters,
\* results in none; in every case the loop goes on.
C34_LongTextForwarded ==
    CallReturned =>
      /\ b_pc = "read"
      /\ IF Len(b_result.text) >= 3 /\ ~b_result.error
         THEN OneEventWith(b_result.text)
         ELSE TextEvents = {}

\* a text that was forwarded
C34_Witness ==
    /\ CallReturned
    /\ b_result.text = "text"
    /\ OneEventWith("text")
    /\ b_pc = "read"

\* the main context is in `while is_running: time.sleep(0.5)`
InWaitLoop == m_pc \in {"wait", "sleep"}

\* C36: while the main context is in its wait loop the running flag is
\* true; the loop is left only by an interrupt raised in the main context,
\* with the flag still set; and the flag is cleared only when the
\* connection is no longer open.
C36_WaitLoopHoldsFlag ==
    /\ [](InWaitLoop => is_running)
    /\ [][(InWaitLoop /\ ~InWaitLoop') =>
             (s_end' = "interrupted" /\ is_running' /\ connection' = "closed")]_vars
    /\ [][(is_running /\ ~is_running') => connection # "open"]_vars

\* the wait loop was left by an interrupt, the with block closed the
\* connection, and main()'s finally block has cleared the flag
C36_Witness ==
    /\ s_end = "interrupted"
    /\ m_pc = "return"
    /\ connection = "closed"
    /\ ~is_running
    /\ l_pc = "listening"

C38_BufferBelowChunk ==
    (c_pc = "loop" /\ s_nread > 0) => s_audio_buffer < min_send_samples

\* C39: for every transcribe message the Moonshine worker writes exactly
\* one record, of type result or error, that carries the id of the
\* request: nothing is written before the handling of the message ends,
\* and what is written then is that one record.
C39_OneResponseWithId ==
    /\ mn_pc \in {"decode", "transcribe"} => mn_out = <<>>
    /\ (/\ mn_pc = "read"
        /\ mn_raw \in {"transcribe_nob64", "transcribe_bad", "transcribe"}) =>
          /\ Len(mn_out) = 1
          /\ mn_out[1].type \in {"result", "error"}
          /\ "id" \in DOMAIN mn_out[1]
          /\ mn_out[1].id = "uid"

================================================================================
